---- MODULE Spec2Model ----
(***************************************************************************)
(* db-migrate: the migration reconciliation engine (apply, rollback,       *)
(* verify/repair) over a directory of .cql files and the ledger table.     *)
(*                                                                         *)
(* Strings are sequences of one-character strings, so that trimming,       *)
(* splitting and prefix tests are computed as the Rust code computes them. *)
(***************************************************************************)
EXTENDS Integers, Sequences, FiniteSets, TLC

(***************************************************************************)
(* Characters and the string primitives of the Rust standard library that  *)
(* the code uses.                                                          *)
(***************************************************************************)

\* The characters of file names and versions, in ascending byte order: the
\* ASCII ones, then "U+00E9" (the letter e with acute accent, two bytes of
\* UTF-8) and "0xFF" (a byte that is no UTF-8 at all, as the names of a Unix
\* file system may hold).
Alphabet ==
    << " ", "-", ".", "0", "1", "2", "3", "4", "5", "6", "7", "8", "9",
       "_", "a", "b", "c", "d", "l", "q", "t", "x", "U+00E9", "0xFF" >>

TwoByteChars == {"U+00E9"}

InvalidBytes == {"0xFF"}

\* str::len: the length in bytes.
ByteLen(s) == Len(s) + Cardinality({i \in DOMAIN s : s[i] \in TwoByteChars})

\* str::is_char_boundary
IsCharBoundary(s, n) == \E k \in 0..Len(s) : ByteLen(SubSeq(s, 1, k)) = n

\* OsStr::to_str succeeds: the name is UTF-8.
IsUtf8(name) == \A i \in DOMAIN name : name[i] \notin InvalidBytes

Ord(ch) == CHOOSE i \in 1..Len(Alphabet) : Alphabet[i] = ch

Digits == {"0", "1", "2", "3", "4", "5", "6", "7", "8", "9"}

WhiteSpace == {" ", "\n"}

\* str < str of Rust (byte-wise lexicographic order).
RECURSIVE StrLess(_, _)
StrLess(s, t) ==
    IF t = <<>> THEN FALSE
    ELSE IF s = <<>> THEN TRUE
    ELSE IF Head(s) = Head(t) THEN StrLess(Tail(s), Tail(t))
    ELSE Ord(Head(s)) < Ord(Head(t))

StartsWith(s, p) == Len(s) >= Len(p) /\ SubSeq(s, 1, Len(p)) = p

EndsWith(s, p) == Len(s) >= Len(p) /\ SubSeq(s, Len(s) - Len(p) + 1, Len(s)) = p

\* str::trim_end_matches(pat): the suffix is removed repeatedly.
RECURSIVE TrimEndMatches(_, _)
TrimEndMatches(s, p) ==
    IF p # <<>> /\ EndsWith(s, p)
    THEN TrimEndMatches(SubSeq(s, 1, Len(s) - Len(p)), p)
    ELSE s

RECURSIVE TrimStart(_)
TrimStart(s) ==
    IF s # <<>> /\ Head(s) \in WhiteSpace THEN TrimStart(Tail(s)) ELSE s

RECURSIVE TrimEnd(_)
TrimEnd(s) ==
    IF s # <<>> /\ s[Len(s)] \in WhiteSpace
    THEN TrimEnd(SubSeq(s, 1, Len(s) - 1))
    ELSE s

\* str::trim
Trim(s) == TrimEnd(TrimStart(s))

\* str::split(ch): the segments between the occurrences of ch, empty ones kept.
RECURSIVE SplitOn(_, _)
SplitOn(s, ch) ==
    IF \A i \in 1..Len(s) : s[i] # ch
    THEN << s >>
    ELSE LET i == CHOOSE k \in 1..Len(s) :
                     s[k] = ch /\ \A j \in 1..(k - 1) : s[j] # ch
         IN  << SubSeq(s, 1, i - 1) >> \o SplitOn(SubSeq(s, i + 1, Len(s)), ch)

\* str::replace(from, to) for single characters.
Replace(s, from, to) == [i \in 1..Len(s) |-> IF s[i] = from THEN to ELSE s[i]]

\* [str]::join(sep)
RECURSIVE JoinWith(_, _)
JoinWith(parts, sep) ==
    IF parts = <<>> THEN <<>>
    ELSE IF Len(parts) = 1 THEN parts[1]
    ELSE parts[1] \o sep \o JoinWith(Tail(parts), sep)

\* str::lines: split on the newline; a final empty line is not a line.
Lines(s) ==
    LET segs == SplitOn(s, "\n")
    IN  IF segs[Len(segs)] = <<>> THEN SubSeq(segs, 1, Len(segs) - 1) ELSE segs

\* Iterator::take(n) on a sequence.
Take(s, n) == SubSeq(s, 1, IF n < Len(s) THEN n ELSE Len(s))

\* Iterator::rev on a sequence.
Reverse(s) == [i \in 1..Len(s) |-> s[Len(s) + 1 - i]]

(***************************************************************************)
(* utils.rs                                                                *)
(***************************************************************************)

CqlExt == << ".", "c", "q", "l" >>

None == [tag |-> "None"]

Some(x) == [tag |-> "Some", val |-> x]

\* calculate_checksum: SHA-256 as an abstract digest, one digest per content
\* (collision resistance); the hex text itself is not computed.
calculate_checksum(content) == << "sha256", content >>

(***************************************************************************)
(* calculate_checksum in full: SHA-256 (FIPS 180-4) of the bytes of the    *)
(* content, written as lower-case hexadecimal.  A 32-bit word is the pair  *)
(* << high, low >> of its 16-bit halves, so that every sum stays within    *)
(* the integers of the model checker.                                      *)
(***************************************************************************)

\* str::as_bytes for the characters of the contents (all ASCII).
AsciiCode ==
    ("\n" :> 10) @@ (" " :> 32) @@ ("+" :> 43) @@ ("-" :> 45) @@
    (";" :> 59) @@ ("." :> 46) @@ ("_" :> 95) @@ ("0" :> 48) @@
    ("1" :> 49) @@ ("2" :> 50) @@ ("3" :> 51) @@ ("4" :> 52) @@
    ("5" :> 53) @@ ("6" :> 54) @@ ("7" :> 55) @@ ("8" :> 56) @@
    ("9" :> 57) @@ ("A" :> 65) @@ ("D" :> 68) @@ ("E" :> 69) @@
    ("N" :> 78) @@ ("O" :> 79) @@ ("P" :> 80) @@ ("T" :> 84) @@
    ("U" :> 85) @@ ("W" :> 87) @@ ("a" :> 97) @@ ("b" :> 98) @@
    ("c" :> 99) @@ ("d" :> 100) @@ ("e" :> 101) @@ ("g" :> 103) @@
    ("i" :> 105) @@ ("l" :> 108) @@ ("m" :> 109) @@ ("n" :> 110) @@
    ("o" :> 111) @@ ("p" :> 112) @@ ("q" :> 113) @@ ("r" :> 114) @@
    ("t" :> 116) @@ ("w" :> 119) @@ ("x" :> 120) @@ ("y" :> 121) @@
    ("C" :> 67) @@ ("R" :> 82) @@ ("B" :> 66) @@ ("L" :> 76) @@ ("I" :> 73) @@ ("K" :> 75) @@
    ("Y" :> 89) @@ ("M" :> 77) @@ ("(" :> 40) @@ (")" :> 41) @@ ("s" :> 115) @@ ("u" :> 117)

AsBytes(content) == [i \in DOMAIN content |-> AsciiCode[content[i]]]

Pow2(n) == 2 ^ n

\* Tables of the bitwise operations on 4-bit digits.
RECURSIVE BitsAnd(_, _, _)
BitsAnd(a, b, n) ==
    IF n = 0 THEN 0
    ELSE (a % 2) * (b % 2) + 2 * BitsAnd(a \div 2, b \div 2, n - 1)

AndTable == [a \in 0..15 |-> [b \in 0..15 |-> BitsAnd(a, b, 4)]]

XorTable == [a \in 0..15 |-> [b \in 0..15 |-> a + b - 2 * AndTable[a][b]]]

\* A bitwise operation on 16-bit halves, digit by digit.
Half(table, a, b) ==
    table[a % 16][b % 16]
      + 16 * table[(a \div 16) % 16][(b \div 16) % 16]
      + 256 * table[(a \div 256) % 16][(b \div 256) % 16]
      + 4096 * table[a \div 4096][b \div 4096]

WordXor(x, y) == << Half(XorTable, x[1], y[1]), Half(XorTable, x[2], y[2]) >>

WordAnd(x, y) == << Half(AndTable, x[1], y[1]), Half(AndTable, x[2], y[2]) >>

WordNot(x) == << 65535 - x[1], 65535 - x[2] >>

\* wrapping_add
WordAdd(x, y) ==
    << (x[1] + y[1] + (x[2] + y[2]) \div 65536) % 65536, (x[2] + y[2]) % 65536 >>

\* rotate_right(n), 0 < n < 32
RotR(x, n) ==
    LET hi == IF n < 16 THEN x[1] ELSE x[2]
        lo == IF n < 16 THEN x[2] ELSE x[1]
        k  == n % 16
    IN  << (hi \div Pow2(k)) + (lo % Pow2(k)) * Pow2(16 - k),
           (lo \div Pow2(k)) + (hi % Pow2(k)) * Pow2(16 - k) >>

\* x >> n, 0 < n < 16
ShR(x, n) ==
    << x[1] \div Pow2(n), (x[2] \div Pow2(n)) + (x[1] % Pow2(n)) * Pow2(16 - n) >>

Xor3(x, y, z) == WordXor(WordXor(x, y), z)

Add4(w, x, y, z) == WordAdd(WordAdd(w, x), WordAdd(y, z))

SmallSigma0(x) == Xor3(RotR(x, 7), RotR(x, 18), ShR(x, 3))

SmallSigma1(x) == Xor3(RotR(x, 17), RotR(x, 19), ShR(x, 10))

BigSigma0(x) == Xor3(RotR(x, 2), RotR(x, 13), RotR(x, 22))

BigSigma1(x) == Xor3(RotR(x, 6), RotR(x, 11), RotR(x, 25))

Ch(x, y, z) == WordXor(WordAnd(x, y), WordAnd(WordNot(x), z))

Maj(x, y, z) == Xor3(WordAnd(x, y), WordAnd(x, z), WordAnd(y, z))

InitialHash ==
    <<
      <<27145, 58983>>, <<47975, 44677>>, <<15470, 62322>>, <<42319, 62778>>,
      <<20750, 21119>>, <<39685, 26764>>, <<8067, 55723>>, <<23520, 52505>>
    >>

RoundConstants ==
    <<
      <<17034, 12184>>, <<28983, 17553>>, <<46528, 64463>>, <<59829, 56229>>,
      <<14678, 49755>>, <<23025, 4593>>, <<37439, 33444>>, <<43804, 24277>>,
      <<55303, 43672>>, <<4739, 23297>>, <<9265, 34238>>, <<21772, 32195>>,
      <<29374, 23924>>, <<32990, 45566>>, <<39900, 1703>>, <<49563, 61812>>,
      <<58523, 27073>>, <<61374, 18310>>, <<4033, 40390>>, <<9228, 41420>>,
      <<11753, 11375>>, <<19060, 33962>>, <<23728, 43484>>, <<30457, 35034>>,
      <<38974, 20818>>, <<43057, 50797>>, <<45059, 10184>>, <<48985, 32711>>,
      <<50912, 3059>>, <<54695, 37191>>, <<1738, 25425>>, <<5161, 10599>>,
      <<10167, 2693>>, <<11803, 8504>>, <<19756, 28156>>, <<21304, 3347>>,
      <<25866, 29524>>, <<30314, 2747>>, <<33218, 51502>>, <<37490, 11397>>,
      <<41663, 59553>>, <<43034, 26187>>, <<49739, 35696>>, <<51052, 20899>>,
      <<53650, 59417>>, <<54937, 1572>>, <<62478, 13701>>, <<4202, 41072>>,
      <<6564, 49430>>, <<7735, 27656>>, <<10056, 30540>>, <<13488, 48309>>,
      <<14620, 3251>>, <<20184, 43594>>, <<23452, 51791>>, <<26670, 28659>>,
      <<29839, 33518>>, <<30885, 25455>>, <<33992, 30740>>, <<36039, 520>>,
      <<37054, 65530>>, <<42064, 27883>>, <<48889, 41975>>, <<50801, 30962>>
    >>

\* The message with its padding: the byte 0x80, zeros up to 56 modulo 64,
\* and the length in bits as 8 bytes (the contents are shorter than 8192
\* bytes, so the upper 6 are zero).
Padded(bytes) ==
    LET zeros == (119 - Len(bytes)) % 64
        bits  == 8 * Len(bytes)
    IN  bytes \o << 128 >> \o [i \in 1..zeros |-> 0]
          \o << 0, 0, 0, 0, 0, 0, bits \div 256, bits % 256 >>

\* Word t (from 1) of the block that starts after byte `from`.
BlockWord(padded, from, t) ==
    << padded[from + 4 * t - 3] * 256 + padded[from + 4 * t - 2],
       padded[from + 4 * t - 1] * 256 + padded[from + 4 * t] >>

\* The message schedule: 16 words of the block, then 48 derived words.
RECURSIVE Schedule(_)
Schedule(w) ==
    IF Len(w) = 64 THEN w
    ELSE LET t == Len(w) + 1
         IN  Schedule(Append(w, Add4(SmallSigma1(w[t - 2]), w[t - 7],
                                     SmallSigma0(w[t - 15]), w[t - 16])))

\* The 64 rounds on the working variables v = << a, b, c, d, e, f, g, h >>
\* (Len(v) is always 8: the test makes v a value before the next round).
RECURSIVE Rounds(_, _, _)
Rounds(v, w, t) ==
    IF t > 64 \/ Len(v) # 8 THEN v
    ELSE LET t1 == WordAdd(Add4(v[8], BigSigma1(v[5]), Ch(v[5], v[6], v[7]),
                                RoundConstants[t]), w[t])
             t2 == WordAdd(BigSigma0(v[1]), Maj(v[1], v[2], v[3]))
         IN  Rounds(<< WordAdd(t1, t2), v[1], v[2], v[3],
                       WordAdd(v[4], t1), v[5], v[6], v[7] >>, w, t + 1)

\* The blocks of the padded message, one after the other.
RECURSIVE Compress(_, _, _)
Compress(hash, padded, from) ==
    IF from >= Len(padded) THEN hash
    ELSE LET w == Schedule([t \in 1..16 |-> BlockWord(padded, from, t)])
             v == Rounds(hash, w, 1)
         IN  Compress([i \in 1..8 |-> WordAdd(hash[i], v[i])], padded, from + 64)

\* Sha256::new, update, finalize: the 32 bytes of the digest.
Sha256(bytes) ==
    LET hash == Compress(InitialHash, Padded(bytes), 0)
    IN  [i \in 1..32 |->
            LET word == hash[(i + 3) \div 4]
                half == IF (i - 1) % 4 < 2 THEN word[1] ELSE word[2]
            IN  IF i % 2 = 1 THEN half \div 256 ELSE half % 256]

HexDigits ==
    << "0", "1", "2", "3", "4", "5", "6", "7", "8", "9", "a", "b", "c", "d", "e", "f" >>

\* format!("{:x}") with a slip: each byte is written without padding, as
\* {:x} writes an integer.
RECURSIVE LowerHexUnpadded(_)
LowerHexUnpadded(bytes) ==
    IF bytes = <<>> THEN <<>>
    ELSE (IF Head(bytes) < 16 THEN <<>> ELSE << HexDigits[(Head(bytes) \div 16) + 1] >>)
           \o << HexDigits[(Head(bytes) % 16) + 1] >> \o LowerHexUnpadded(Tail(bytes))

\* format!("{:x}", digest): two digits for each byte.
LowerHex(bytes) ==
    [i \in 1..(2 * Len(bytes)) |->
        IF i % 2 = 1 THEN HexDigits[(bytes[(i + 1) \div 2] \div 16) + 1]
                     ELSE HexDigits[(bytes[i \div 2] % 16) + 1]]

\* calculate_checksum with the digest computed: Sha256::new, update with
\* the bytes of the content, and the lower-case hexadecimal of finalize.
calculate_checksum_hex(content) == LowerHex(Sha256(AsBytes(content)))

\* The thread panicked: str::split_at was given a byte offset inside a
\* character.
Panic == [tag |-> "Panic"]

\* extract_version_from_filename: Some(version), None, or the panic of
\* split_at(8) when byte 8 of version_part is not a character boundary.
extract_version_from_filename(filename) ==
    LET stem         == TrimEndMatches(filename, CqlExt)
        version_part == JoinWith(Take(SplitOn(stem, "_"), 2), << "_" >>)
        mid          == CHOOSE k \in 0..Len(version_part) :
                            ByteLen(SubSeq(version_part, 1, k)) = 8
        date_part    == SubSeq(version_part, 1, mid)
        seq_part     == SubSeq(version_part, mid + 1, Len(version_part))
    IN  IF ByteLen(version_part) < 9 THEN None
        ELSE IF ~IsCharBoundary(version_part, 8) THEN Panic
        ELSE IF /\ \A i \in 1..Len(date_part) : date_part[i] \in Digits
                /\ StartsWith(seq_part, << "_" >>)
                /\ \A i \in 2..Len(seq_part) : seq_part[i] \in Digits
        THEN Some(stem)
        ELSE None

\* extract_description_from_filename
extract_description_from_filename(filename) ==
    LET stem  == TrimEndMatches(filename, CqlExt)
        parts == SplitOn(stem, "_")
    IN  IF Len(parts) >= 3
        THEN Replace(JoinWith(SubSeq(parts, 3, Len(parts)), << "_" >>), "_", " ")
        ELSE stem

\* The section markers and the comment prefix of parse_migration_content.
MarkerUp == << "-", "-", " ", "U", "P" >>
MarkerMigrateUp ==
    << "-", "-", " ", "+", "m", "i", "g", "r", "a", "t", "e", " ", "U", "p" >>
MarkerDown == << "-", "-", " ", "D", "O", "W", "N" >>
MarkerMigrateDown ==
    << "-", "-", " ", "+", "m", "i", "g", "r", "a", "t", "e", " ", "D", "o", "w", "n" >>
CommentPrefix == << "-", "-" >>

\* ParseLines with a slip: comment lines before the first marker are not
\* skipped, only blank ones.
RECURSIVE ParseLinesKeepsComments(_, _, _, _)
ParseLinesKeepsComments(lines, up, down, cur) ==
    IF lines = <<>> THEN [up |-> up, down |-> down]
    ELSE
      LET line    == Head(lines)
          trimmed == Trim(line)
          rest    == Tail(lines)
      IN  IF StartsWith(trimmed, MarkerUp) \/ StartsWith(trimmed, MarkerMigrateUp)
          THEN ParseLinesKeepsComments(rest, up, down, "UP")
          ELSE IF StartsWith(trimmed, MarkerDown) \/ StartsWith(trimmed, MarkerMigrateDown)
          THEN ParseLinesKeepsComments(rest, up, down, "DOWN")
          ELSE IF cur = "none" /\ trimmed = <<>>
          THEN ParseLinesKeepsComments(rest, up, down, cur)
          ELSE LET sec == IF cur = "none" THEN "UP" ELSE cur
               IN  IF sec = "UP"
                   THEN ParseLinesKeepsComments(rest, Append(up, line), down, sec)
                   ELSE ParseLinesKeepsComments(rest, up, Append(down, line), sec)

\* The loop of parse_migration_content over the lines: cur is current_section.
RECURSIVE ParseLines(_, _, _, _)
ParseLines(lines, up, down, cur) ==
    IF lines = <<>> THEN [up |-> up, down |-> down]
    ELSE
      LET line    == Head(lines)
          trimmed == Trim(line)
          rest    == Tail(lines)
      IN  IF StartsWith(trimmed, MarkerUp) \/ StartsWith(trimmed, MarkerMigrateUp)
          THEN ParseLines(rest, up, down, "UP")
          ELSE IF StartsWith(trimmed, MarkerDown) \/ StartsWith(trimmed, MarkerMigrateDown)
          THEN ParseLines(rest, up, down, "DOWN")
          ELSE IF cur = "none" /\ (trimmed = <<>> \/ StartsWith(trimmed, CommentPrefix))
          THEN ParseLines(rest, up, down, cur)
          ELSE LET sec == IF cur = "none" THEN "UP" ELSE cur
               IN  IF sec = "UP"
                   THEN ParseLines(rest, Append(up, line), down, sec)
                   ELSE ParseLines(rest, up, Append(down, line), sec)

\* parse_migration_content: Ok((up_content, down_content)) or Err(text).
parse_migration_content(content) ==
    LET secs         == ParseLines(Lines(content), <<>>, <<>>, "none")
        up_content   == Trim(JoinWith(secs.up, << "\n" >>))
        down_content == IF secs.down = <<>>
                        THEN None
                        ELSE Some(Trim(JoinWith(secs.down, << "\n" >>)))
    IN  IF up_content = <<>>
        THEN [ok |-> FALSE, err |-> "Migration must contain at least UP section with CQL statements"]
        ELSE [ok |-> TRUE, up |-> up_content, down |-> down_content]

(***************************************************************************)
(* migration.rs: pure helpers                                              *)
(***************************************************************************)

\* The filter with a slip: empty segments are kept.
KeepsEmpty(s) == TRUE

NonEmpty(s) == s # <<>>

\* split_cql_statements with a slip: the text is split at the ends of the
\* lines, not at the terminators.
split_cql_lines(content) ==
    LET trimmed == [i \in 1..Len(SplitOn(content, "\n")) |-> Trim(SplitOn(content, "\n")[i])]
    IN  SelectSeq(trimmed, NonEmpty)

\* split_cql_statements
split_cql_statements(content) ==
    LET trimmed == [i \in 1..Len(SplitOn(content, ";")) |-> Trim(SplitOn(content, ";")[i])]
    IN  SelectSeq(trimmed, NonEmpty)

(***************************************************************************)
(* The inputs: the file names and file contents the directory may hold.    *)
(***************************************************************************)

\* 20250101_001_a.cql
NameA ==
    << "2", "0", "2", "5", "0", "1", "0", "1", "_", "0", "0", "1", "_", "a",
       ".", "c", "q", "l" >>
\* 20250101_002_b.cql
NameB ==
    << "2", "0", "2", "5", "0", "1", "0", "1", "_", "0", "0", "2", "_", "b",
       ".", "c", "q", "l" >>
\* 20250101_003.cql
NameC ==
    << "2", "0", "2", "5", "0", "1", "0", "1", "_", "0", "0", "3",
       ".", "c", "q", "l" >>
\* 20250101_001_a.cql.cql
NameADup == NameA \o CqlExt

FileNames == {NameA, NameB, NameC, NameADup}

\* x.cql: the extension of a migration, no version in the name.
NameInvalid == << "x", ".", "c", "q", "l" >>
\* 2025010é_1.cql: byte 8 of the name is the second byte of the letter é.
NameWide ==
    << "2", "0", "2", "5", "0", "1", "0", "U+00E9", "_", "1", ".", "c", "q", "l" >>
\* A name that is not UTF-8, with the extension cql.
NameNotUtf8 == << "0xFF", ".", "c", "q", "l" >>
\* 20250101_002_b.txt: another extension.
NameOtherExtension ==
    << "2", "0", "2", "5", "0", "1", "0", "1", "_", "0", "0", "2", "_", "b",
       ".", "t", "x", "t" >>

RobustNames == {NameA, NameInvalid, NameWide, NameNotUtf8, NameOtherExtension}

\* "-- UP\na;b;\n-- DOWN\nc;\n": two UP statements, one DOWN statement.
ContentFull ==
    << "-", "-", " ", "U", "P", "\n", "a", ";", "b", ";", "\n",
       "-", "-", " ", "D", "O", "W", "N", "\n", "c", ";", "\n" >>
\* ContentFull with its DOWN statement edited: "-- UP\na;b;\n-- DOWN\nd;\n".
ContentEdited ==
    << "-", "-", " ", "U", "P", "\n", "a", ";", "b", ";", "\n",
       "-", "-", " ", "D", "O", "W", "N", "\n", "d", ";", "\n" >>
\* "a;\n": statements without any marker, no DOWN section.
ContentNoDown == << "a", ";", "\n" >>
\* "-- x\n": a comment only, no UP statement.
ContentNoUp == << "-", "-", " ", "x", "\n" >>

Contents == {ContentFull, ContentEdited, ContentNoDown, ContentNoUp}

(***************************************************************************)
(* Bounds of the model.                                                    *)
(***************************************************************************)

\* The greatest --count a command is started with.
MaxCount == 3
\* The number of file writes and deletions between commands.
MaxEdits == 1

(***************************************************************************)
(* The ledger table: one row per version (version is the primary key).     *)
(***************************************************************************)

\* INSERT INTO table (version, applied_at, checksum, description): the row
\* with this primary key is written, replacing the row that had it.
InsertRow(table, row) == {r \in table : r.version # row.version} \cup {row}

\* DELETE FROM table WHERE version = ?
DeleteRow(table, version) == {r \in table : r.version # version}

\* UPDATE table SET checksum = ? WHERE version = ? (the row exists whenever
\* the code issues it: it was read in the same command).
UpdateRow(table, version, checksum) ==
    {IF r.version = version THEN [r EXCEPT !.checksum = checksum] ELSE r : r \in table}

\* SELECT ... ORDER BY version: the rows in ascending version order.
RECURSIVE OrderByVersion(_)
OrderByVersion(table) ==
    IF table = {} THEN <<>>
    ELSE LET m == CHOOSE r \in table :
                     \A q \in table : q.version # r.version => StrLess(r.version, q.version)
         IN  << m >> \o OrderByVersion(table \ {m})

\* sort_by_file_name of WalkDir: the names in ascending byte order.
RECURSIVE SortByFileName(_)
SortByFileName(names) ==
    IF names = {} THEN <<>>
    ELSE LET m == CHOOSE n \in names : \A o \in names \ {n} : StrLess(n, o)
         IN  << m >> \o SortByFileName(names \ {m})

\* Path::extension: the text after the last dot of the file name, none when
\* the name has no dot or only a leading one.
Extension(name) ==
    LET parts == SplitOn(name, ".")
    IN  IF Len(parts) = 1 \/ (Len(parts) = 2 /\ parts[1] = <<>>)
        THEN None
        ELSE Some(parts[Len(parts)])

(***************************************************************************)
(* migration.rs: MigrationManager                                          *)
(***************************************************************************)

VARIABLES
    dir,          \* the migrations directory: file name -> Some(content) | None
    ledger,       \* the rows of the migrations table
    edits,        \* file writes and deletions so far
    cmd,          \* the command running, with the flags its loop still reads
    pc,           \* where the command stands ("idle": none is running)
    cands,        \* migrations_to_apply / migrations_to_rollback / checksum_errors
    idx,          \* the position in cands of the loop
    stmts,        \* the statements of the current candidate still to execute
    done_count,   \* applied_count / rollback_count / fixed_count
    done,         \* applied_migrations / rolled_back_migrations
    result,       \* what the last command returned
    ledger0,      \* history: the ledger when the command started
    effects       \* history: the database mutations the command has made

vars ==
    << dir, ledger, edits, cmd, pc, cands, idx, stmts, done_count, done,
       result, ledger0, effects >>

\* The rows in ascending order of applied_at.
RECURSIVE OrderByAppliedAt(_)
OrderByAppliedAt(table) ==
    IF table = {} THEN <<>>
    ELSE LET m == CHOOSE r \in table : \A q \in table : r.applied_at <= q.applied_at
         IN  << m >> \o OrderByAppliedAt(table \ {m})

\* get_applied_migrations with a slip: the query orders by applied_at.
get_applied_by_time(table) == OrderByAppliedAt(table)

\* get_applied_migrations with a slip: the query has no ORDER BY, and the
\* rows come in another order (here the descending one).
get_applied_unordered(table) == Reverse(OrderByVersion(table))

\* get_applied_migrations
get_applied_migrations(table) == OrderByVersion(table)

\* The loop of get_migration_files over the sorted directory entries.
RECURSIVE ScanEntries(_, _)
ScanEntries(names, d) ==
    IF names = <<>> THEN <<>>
    ELSE
      LET filename == Head(names)
          version  == extract_version_from_filename(filename)
          rest     == ScanEntries(Tail(names), d)
      IN  IF Extension(filename) # Some(<< "c", "q", "l" >>) THEN rest
          ELSE IF version.tag = "Some"
          THEN << [ version     |-> version.val,
                    description |-> extract_description_from_filename(filename),
                    file_path   |-> filename,
                    content     |-> d[filename].val,
                    checksum    |-> calculate_checksum(d[filename].val) ] >> \o rest
          ELSE rest

\* Path::exists of the migrations directory: a directory that is absent has
\* no entry at all, one that exists maps the names it does not hold to None.
DirExists(d) == DOMAIN d # {}

\* The directory once created: it holds none of the names.
EmptyDir(names) == [n \in names |-> None]

\* What get_migration_files leaves of the directory: create_dir_all when it
\* was absent.
create_dir_all(d) == IF DirExists(d) THEN d ELSE EmptyDir(RobustNames)

\* How the loop of get_migration_files ends: "ok", "error" when a name with
\* the extension cql is not UTF-8 (InvalidFormat), "panic" when
\* extract_version_from_filename panics.  The entries come in name order and
\* the first one that fails decides.
RECURSIVE ScanEnds(_)
ScanEnds(names) ==
    IF names = <<>> THEN "ok"
    ELSE IF Extension(Head(names)) # Some(<< "c", "q", "l" >>) THEN ScanEnds(Tail(names))
    ELSE IF ~IsUtf8(Head(names)) THEN "error"
    ELSE IF extract_version_from_filename(Head(names)) = Panic THEN "panic"
    ELSE ScanEnds(Tail(names))

ScanOutcome(d) == ScanEnds(SortByFileName({n \in DOMAIN d : d[n].tag = "Some"}))

\* get_migration_files
get_migration_files(d) ==
    ScanEntries(SortByFileName({n \in DOMAIN d : d[n].tag = "Some"}), d)

\* get_pending_migrations with a slip: the applied versions are not removed.
get_pending_unfiltered(table, d) == get_migration_files(d)

\* get_pending_migrations with a slip: the pending files come out in the
\* reverse of the scan order.
get_pending_reversed(table, d) ==
    LET applied_versions == {m.version : m \in table}
        NotApplied(f)    == f.version \notin applied_versions
    IN  Reverse(SelectSeq(get_migration_files(d), NotApplied))

\* get_pending_migrations
get_pending_migrations(table, d) ==
    LET applied_versions == {m.version : m \in table}
        NotApplied(f)    == f.version \notin applied_versions
    IN  SelectSeq(get_migration_files(d), NotApplied)

\* is_migration_applied with a slip: the row is never found.
is_migration_never_applied(table, version) == FALSE

\* is_migration_applied
is_migration_applied(table, version) == \E r \in table : r.version = version

\* Utc::now().timestamp_millis() of record_migration_applied: an instant
\* later than every instant the table holds (the clock does not go back and
\* two inserts are more than a millisecond apart); instants are kept up to
\* their order, so it is the least such instant.
UtcNow(table) ==
    IF table = {} THEN 0
    ELSE 1 + (CHOOSE t \in {r.applied_at : r \in table} :
                 \A r \in table : r.applied_at <= t)

\* The row record_migration_applied inserts.
MigrationRow(migration, at) ==
    [ version     |-> migration.version,
      applied_at  |-> at,
      checksum    |-> migration.checksum,
      description |-> migration.description ]

\* record_migration_applied
record_migration_applied(table, migration, at) ==
    InsertRow(table, MigrationRow(migration, at))

\* remove_migration_record with a slip: the DELETE names no row.
remove_no_record(table, version) == table

\* remove_migration_record
remove_migration_record(table, version) == DeleteRow(table, version)

\* update_migration_checksum with a slip: the statement also sets applied_at.
update_checksum_and_time(table, version, new_checksum) ==
    {IF r.version = version
     THEN [r EXCEPT !.checksum = new_checksum, !.applied_at = UtcNow(table)]
     ELSE r : r \in table}

\* update_migration_checksum
update_migration_checksum(table, version, new_checksum) ==
    UpdateRow(table, version, new_checksum)

\* The first file with this version (files.iter().find of rollback_migration).
FindFile(files, version) ==
    LET hits == SelectSeq(files, LAMBDA f : f.version = version)
    IN  IF hits = <<>> THEN None ELSE Some(hits[1])

\* file_map of verify_migrations: collecting into a HashMap keeps, for each
\* version, the last file of the scan that has it.
FileMapGet(files, version) ==
    LET hits == SelectSeq(files, LAMBDA f : f.version = version)
    IN  IF hits = <<>> THEN None ELSE Some(hits[Len(hits)])

\* The loop of verify_migrations over the applied records.
RECURSIVE VerifyLoop(_, _)
VerifyLoop(applied, files) ==
    IF applied = <<>> THEN <<>>
    ELSE
      LET applied_migration == Head(applied)
          file              == FileMapGet(files, applied_migration.version)
          rest              == VerifyLoop(Tail(applied), files)
      IN  IF file.tag = "Some"
          THEN IF file.val.checksum # applied_migration.checksum
               THEN << [ kind     |-> "ChecksumMismatch",
                         version  |-> applied_migration.version,
                         expected |-> applied_migration.checksum,
                         actual   |-> file.val.checksum ] >> \o rest
               ELSE rest
          ELSE << [ kind    |-> "MigrationNotFound",
                    version |-> applied_migration.version ] >> \o rest

\* verify_migrations
verify_migrations(table, d) ==
    VerifyLoop(get_applied_migrations(table), get_migration_files(d))

(***************************************************************************)
(* The state machine.  One process runs one command: from "idle" a command *)
(* starts, runs its loop and returns ("done"), and the process exits.      *)
(* Every database round trip is one step and may fail: the executor        *)
(* returns an error and the statement has had no effect.                   *)
(***************************************************************************)

NoCommand == [name |-> "none"]

NoResult == [kind |-> "none"]

Init ==
    /\ dir = [n \in FileNames |-> IF n = NameADup THEN None ELSE Some(ContentFull)]
    /\ ledger = {}
    /\ edits = 0
    /\ cmd = NoCommand
    /\ pc = "idle"
    /\ cands = <<>>
    /\ idx = 0
    /\ stmts = <<>>
    /\ done_count = 0
    /\ done = <<>>
    /\ result = NoResult
    /\ ledger0 = {}
    /\ effects = <<>>

\* A command starts: its loop variables and the history are fresh.
Begin(command) ==
    /\ pc = "idle"
    /\ cmd' = command
    /\ ledger0' = ledger
    /\ effects' = <<>>
    /\ done_count' = 0
    /\ done' = <<>>

\* A command returns before its loop.
ReturnAtStart(output) ==
    /\ pc' = "done"
    /\ result' = output
    /\ cands' = <<>>
    /\ idx' = 0
    /\ stmts' = <<>>
    /\ UNCHANGED << dir, ledger, edits >>

\* A command returns before its loop, after get_migration_files ran.
ReturnAfterScan(output) ==
    /\ pc' = "done"
    /\ result' = output
    /\ cands' = <<>>
    /\ idx' = 0
    /\ stmts' = <<>>
    /\ dir' = create_dir_all(dir)
    /\ UNCHANGED << ledger, edits >>

\* The process was aborted by a panic.
Panicked == [kind |-> "panic"]

\* get_migration_files failed, and every caller hands its error on.
ScanFailed == [kind |-> "error", error |-> "InvalidFormat"]

\* A command enters its loop over the candidates.
EnterLoop(label, candidates) ==
    /\ pc' = label
    /\ cands' = candidates
    /\ idx' = 1
    /\ stmts' = <<>>
    /\ UNCHANGED << dir, ledger, edits, result >>

\* An entry of the history: the candidate at work, the kind of mutation (an
\* UP or DOWN statement, or an INSERT, DELETE or UPDATE of a ledger row) and
\* its text (the statement, or the version of the row).
Effect(op, arg) == [idx |-> idx, op |-> op, arg |-> arg]

CountOptions == {None} \cup {Some(k) : k \in 0..MaxCount}

Versions(files) == [i \in 1..Len(files) |-> files[i].version]

(***************************************************************************)
(* commands/up.rs                                                          *)
(***************************************************************************)

\* ApplyFailed with a slip: the error of apply_migration is propagated.
ApplyFailedHard(error) == [kind |-> "error", error |-> error]

\* The partial result UpCommand::execute returns when apply_migration fails.
ApplyFailed(error) ==
    [ kind               |-> "failed",
      applied_count      |-> done_count,
      applied_migrations |-> done,
      failed_migration   |-> cands[idx].version,
      error              |-> error ]

\* ApplyError with a slip: the Err arm goes on with the next candidate
\* instead of returning.
ApplyErrorContinues(error) ==
    IF idx < Len(cands)
    THEN /\ idx' = idx + 1
         /\ pc' = "apply_check"
         /\ stmts' = <<>>
         /\ UNCHANGED << dir, ledger, edits, cmd, cands, done_count, done,
                         result, ledger0, effects >>
    ELSE /\ pc' = "done"
         /\ result' = ApplyFailed(error)
         /\ UNCHANGED << dir, ledger, edits, cmd, cands, idx, stmts, done_count,
                         done, ledger0, effects >>

\* The Err arm of the loop of UpCommand::execute: the batch returns.
ApplyError(error) ==
    /\ pc' = "done"
    /\ result' = ApplyFailed(error)
    /\ UNCHANGED << dir, ledger, edits, cmd, cands, idx, stmts, done_count,
                    done, ledger0, effects >>

\* The flag --dry-run as UpCommand and DownCommand read it.
DryRunIgnored(dry_run) == FALSE

DryRunRequested(dry_run) == dry_run

\* UpCommand::execute up to its loop.
UpStart ==
    LET pending_migrations == get_pending_migrations(ledger, dir)
    IN  \E count \in CountOptions, dry_run \in BOOLEAN, query_ok \in BOOLEAN :
          LET migrations_to_apply ==
                  IF count.tag = "Some"
                  THEN Take(pending_migrations, count.val)
                  ELSE pending_migrations
          IN  /\ Begin([name |-> "up", count |-> count, dry_run |-> dry_run])
              /\ IF ~query_ok
                 THEN ReturnAtStart([kind |-> "error", error |-> "QueryError"])
                 ELSE IF ScanOutcome(dir) = "panic" THEN ReturnAfterScan(Panicked)
                 ELSE IF ScanOutcome(dir) = "error" THEN ReturnAfterScan(ScanFailed)
                 ELSE IF pending_migrations = <<>>
                 THEN ReturnAfterScan([kind |-> "success", message |-> "No pending migrations found"])
                 ELSE IF DryRunRequested(dry_run)
                 THEN ReturnAtStart([kind |-> "dry_run", migrations |-> Versions(migrations_to_apply)])
                 ELSE IF migrations_to_apply = <<>>
                 THEN ReturnAtStart([kind |-> "applied", applied_count |-> 0, applied_migrations |-> <<>>])
                 ELSE EnterLoop("apply_check", migrations_to_apply)

\* apply_migration up to its first statement: the already-applied check and
\* the parse of the content.
ApplyCheck ==
    /\ pc = "apply_check"
    /\ LET migration == cands[idx]
           parsed    == parse_migration_content(migration.content)
       IN  \E query_ok \in BOOLEAN :
             IF ~query_ok THEN ApplyError("QueryError")
             ELSE IF is_migration_applied(ledger, migration.version)
             THEN ApplyError("AlreadyApplied")
             ELSE IF ~parsed.ok THEN ApplyError("InvalidFormat")
             ELSE /\ stmts' = split_cql_statements(parsed.up)
                  /\ pc' = IF split_cql_statements(parsed.up) = <<>>
                           THEN "apply_record" ELSE "apply_exec"
                  /\ UNCHANGED << dir, ledger, edits, cmd, cands, idx,
                                  done_count, done, result, ledger0, effects >>

\* ApplyExec with a slip: the result of the query is dropped, so a failed
\* statement is passed over.
ApplyExecIgnoresFailure ==
    /\ pc = "apply_exec"
    /\ \E query_ok \in BOOLEAN :
         /\ effects' = IF query_ok
                       THEN Append(effects, Effect("UP", Head(stmts)))
                       ELSE effects
         /\ stmts' = Tail(stmts)
         /\ pc' = IF Tail(stmts) = <<>> THEN "apply_record" ELSE "apply_exec"
         /\ UNCHANGED << dir, ledger, edits, cmd, cands, idx,
                         done_count, done, result, ledger0 >>

\* ApplyExec with a slip: the statement that failed has taken effect.
ApplyExecFailureTakesEffect ==
    /\ pc = "apply_exec"
    /\ \E query_ok \in BOOLEAN :
         /\ effects' = Append(effects, Effect("UP", Head(stmts)))
         /\ IF ~query_ok
            THEN /\ pc' = "done"
                 /\ result' = ApplyFailed("QueryError")
                 /\ UNCHANGED stmts
            ELSE /\ stmts' = Tail(stmts)
                 /\ pc' = IF Tail(stmts) = <<>> THEN "apply_record" ELSE "apply_exec"
                 /\ UNCHANGED result
         /\ UNCHANGED << dir, ledger, edits, cmd, cands, idx,
                         done_count, done, ledger0 >>

\* apply_migration: one UP statement is sent to the database.
ApplyExec ==
    /\ pc = "apply_exec"
    /\ \E query_ok \in BOOLEAN :
         IF ~query_ok THEN ApplyError("QueryError")
         ELSE /\ effects' = Append(effects, Effect("UP", Head(stmts)))
              /\ stmts' = Tail(stmts)
              /\ pc' = IF Tail(stmts) = <<>> THEN "apply_record" ELSE "apply_exec"
              /\ UNCHANGED << dir, ledger, edits, cmd, cands, idx,
                              done_count, done, result, ledger0 >>

\* What the loop of UpCommand::execute does after Ok(_): the next candidate,
\* or the final result after the last one.
ApplyNext ==
    /\ done_count' = done_count + 1
    /\ done' = Append(done, cands[idx].version)
    /\ stmts' = <<>>
    /\ IF idx < Len(cands)
       THEN /\ idx' = idx + 1
            /\ pc' = "apply_check"
            /\ UNCHANGED result
       ELSE /\ idx' = idx
            /\ pc' = "done"
            /\ result' = [ kind               |-> "applied",
                           applied_count      |-> done_count + 1,
                           applied_migrations |-> Append(done, cands[idx].version) ]

\* apply_migration: record_migration_applied, then Ok(()).
ApplyRecord ==
    /\ pc = "apply_record"
    /\ \E query_ok \in BOOLEAN :
         IF ~query_ok THEN ApplyError("QueryError")
         ELSE /\ ledger' = record_migration_applied(ledger, cands[idx], UtcNow(ledger))
              /\ effects' = Append(effects, Effect("INSERT", cands[idx].version))
              /\ ApplyNext
              /\ UNCHANGED << dir, edits, cmd, cands, ledger0 >>

(***************************************************************************)
(* commands/down.rs                                                        *)
(***************************************************************************)

\* The partial result DownCommand::execute returns when a rollback fails.
RollbackFailed(error) ==
    [ kind                   |-> "failed",
      rollback_count         |-> done_count,
      rolled_back_migrations |-> done,
      failed_migration       |-> cands[idx].version,
      error                  |-> error ]

\* RollbackStop with a slip: the returning arm goes on with the next
\* candidate instead of returning.
RollbackStopContinues(error) ==
    IF idx < Len(cands)
    THEN /\ idx' = idx + 1
         /\ pc' = "rollback_check"
         /\ stmts' = <<>>
         /\ UNCHANGED << dir, ledger, edits, cmd, cands, done_count, done,
                         result, ledger0, effects >>
    ELSE /\ pc' = "done"
         /\ result' = RollbackFailed(error)
         /\ UNCHANGED << dir, ledger, edits, cmd, cands, idx, stmts, done_count,
                         done, ledger0, effects >>

\* The returning arms of the loop of DownCommand::execute.
RollbackStop(error) ==
    /\ pc' = "done"
    /\ result' = RollbackFailed(error)
    /\ UNCHANGED << dir, ledger, edits, cmd, cands, idx, stmts, done_count,
                    done, ledger0, effects >>

\* ForcedArm with a slip: the force flag is not consulted.
ForcedArmIgnoresFlag(error, force) == error = "RollbackError"

\* ForcedArm with a slip: under --force every error goes on to the forced
\* removal.
ForcedArmAnyError(error, force) == force

\* Whether the match in DownCommand::execute goes on to the forced removal:
\* it does for a RollbackError under --force, for no other error.
ForcedArm(error, force) == error = "RollbackError" /\ force

\* The arms of the match in DownCommand::execute for an Err of
\* rollback_migration.
RollbackError(error) ==
    IF ForcedArm(error, cmd.force)
    THEN /\ pc' = "force_remove"
         /\ UNCHANGED << dir, ledger, edits, cmd, cands, idx, stmts,
                         done_count, done, result, ledger0, effects >>
    ELSE RollbackStop(error)

\* DownCommand::execute up to its loop.
DownStart ==
    LET applied_migrations == get_applied_migrations(ledger)
    IN  \E count \in 0..MaxCount, dry_run \in BOOLEAN, force \in BOOLEAN,
           query_ok \in BOOLEAN :
          LET migrations_to_rollback == Take(Reverse(applied_migrations), count)
          IN  /\ Begin([name |-> "down", force |-> force, count |-> count,
                        dry_run |-> dry_run])
              /\ IF ~query_ok
                 THEN ReturnAtStart([kind |-> "error", error |-> "QueryError"])
                 ELSE IF applied_migrations = <<>>
                 THEN ReturnAtStart([kind |-> "success", message |-> "No applied migrations to rollback"])
                 ELSE IF DryRunRequested(dry_run)
                 THEN ReturnAtStart([kind |-> "dry_run", migrations |-> Versions(migrations_to_rollback)])
                 ELSE IF migrations_to_rollback = <<>>
                 THEN ReturnAtStart([kind |-> "rolled_back", rollback_count |-> 0, rolled_back_migrations |-> <<>>])
                 ELSE EnterLoop("rollback_check", migrations_to_rollback)

\* rollback_migration met no directory: get_migration_files created it and
\* found no file, and the match of DownCommand::execute takes the error.
RollbackInCreatedDir ==
    /\ dir' = create_dir_all(dir)
    /\ IF ForcedArm("MigrationNotFound", cmd.force)
       THEN pc' = "force_remove" /\ UNCHANGED result
       ELSE pc' = "done" /\ result' = RollbackFailed("MigrationNotFound")
    /\ UNCHANGED << ledger, edits, cmd, cands, idx, stmts, done_count, done,
                    ledger0, effects >>

\* The scan of rollback_migration panicked: the process is gone, the batch
\* returns nothing.
RollbackPanics ==
    /\ pc' = "done"
    /\ result' = Panicked
    /\ UNCHANGED << dir, ledger, edits, cmd, cands, idx, stmts, done_count,
                    done, ledger0, effects >>

\* RollbackCheck with a slip: the checksum of the file is compared with the
\* one of the record, as verify_migrations does.
RollbackCheckComparesChecksum ==
    /\ pc = "rollback_check"
    /\ LET version        == cands[idx].version
           migration_file == FindFile(get_migration_files(dir), version)
           parsed         == parse_migration_content(migration_file.val.content)
       IN  \E query_ok \in BOOLEAN :
             IF ~query_ok THEN RollbackError("QueryError")
             ELSE IF ~is_migration_applied(ledger, version)
             THEN RollbackError("MigrationNotFound")
             ELSE IF ScanOutcome(dir) = "panic" THEN RollbackPanics
             ELSE IF ScanOutcome(dir) = "error" THEN RollbackError("InvalidFormat")
             ELSE IF ~DirExists(dir) THEN RollbackInCreatedDir
             ELSE IF migration_file.tag = "None" THEN RollbackError("MigrationNotFound")
             ELSE IF migration_file.val.checksum # cands[idx].checksum
             THEN RollbackError("ChecksumMismatch")
             ELSE IF ~parsed.ok THEN RollbackError("InvalidFormat")
             ELSE IF parsed.down.tag = "None" THEN RollbackError("RollbackError")
             ELSE /\ stmts' = split_cql_statements(parsed.down.val)
                  /\ pc' = IF split_cql_statements(parsed.down.val) = <<>>
                           THEN "rollback_remove" ELSE "rollback_exec"
                  /\ UNCHANGED << dir, ledger, edits, cmd, cands, idx,
                                  done_count, done, result, ledger0, effects >>

\* rollback_migration up to its first statement: the applied check, the
\* search of the file, the parse and the DOWN section.
RollbackCheck ==
    /\ pc = "rollback_check"
    /\ LET version        == cands[idx].version
           migration_file == FindFile(get_migration_files(dir), version)
           parsed         == parse_migration_content(migration_file.val.content)
       IN  \E query_ok \in BOOLEAN :
             IF ~query_ok THEN RollbackError("QueryError")
             ELSE IF ~is_migration_applied(ledger, version)
             THEN RollbackError("MigrationNotFound")
             ELSE IF ScanOutcome(dir) = "panic" THEN RollbackPanics
             ELSE IF ScanOutcome(dir) = "error" THEN RollbackError("InvalidFormat")
             ELSE IF ~DirExists(dir) THEN RollbackInCreatedDir
             ELSE IF migration_file.tag = "None" THEN RollbackError("MigrationNotFound")
             ELSE IF ~parsed.ok THEN RollbackError("InvalidFormat")
             ELSE IF parsed.down.tag = "None" THEN RollbackError("RollbackError")
             ELSE /\ stmts' = split_cql_statements(parsed.down.val)
                  /\ pc' = IF split_cql_statements(parsed.down.val) = <<>>
                           THEN "rollback_remove" ELSE "rollback_exec"
                  /\ UNCHANGED << dir, ledger, edits, cmd, cands, idx,
                                  done_count, done, result, ledger0, effects >>

\* rollback_migration: one DOWN statement is sent to the database.
RollbackExec ==
    /\ pc = "rollback_exec"
    /\ \E query_ok \in BOOLEAN :
         IF ~query_ok THEN RollbackError("QueryError")
         ELSE /\ effects' = Append(effects, Effect("DOWN", Head(stmts)))
              /\ stmts' = Tail(stmts)
              /\ pc' = IF Tail(stmts) = <<>> THEN "rollback_remove" ELSE "rollback_exec"
              /\ UNCHANGED << dir, ledger, edits, cmd, cands, idx,
                              done_count, done, result, ledger0 >>

\* What the loop of DownCommand::execute does after a rollback or a forced
\* removal succeeded: the next candidate, or the final result.
RollbackNext ==
    /\ done_count' = done_count + 1
    /\ done' = Append(done, cands[idx].version)
    /\ stmts' = <<>>
    /\ IF idx < Len(cands)
       THEN /\ idx' = idx + 1
            /\ pc' = "rollback_check"
            /\ UNCHANGED result
       ELSE /\ idx' = idx
            /\ pc' = "done"
            /\ result' = [ kind                   |-> "rolled_back",
                           rollback_count         |-> done_count + 1,
                           rolled_back_migrations |-> Append(done, cands[idx].version) ]

\* rollback_migration: remove_migration_record, then Ok(()).
RollbackRemove ==
    /\ pc = "rollback_remove"
    /\ \E query_ok \in BOOLEAN :
         IF ~query_ok THEN RollbackError("QueryError")
         ELSE /\ ledger' = remove_migration_record(ledger, cands[idx].version)
              /\ effects' = Append(effects, Effect("DELETE", cands[idx].version))
              /\ RollbackNext
              /\ UNCHANGED << dir, edits, cmd, cands, ledger0 >>

\* DownCommand::execute under --force after a RollbackError: the record is
\* removed without any statement.
ForceRemove ==
    /\ pc = "force_remove"
    /\ \E query_ok \in BOOLEAN :
         IF ~query_ok THEN RollbackStop("ForceFailed")
         ELSE /\ ledger' = remove_migration_record(ledger, cands[idx].version)
              /\ effects' = Append(effects, Effect("DELETE", cands[idx].version))
              /\ RollbackNext
              /\ UNCHANGED << dir, edits, cmd, cands, ledger0 >>

(***************************************************************************)
(* commands/verify.rs                                                      *)
(***************************************************************************)

IsChecksumMismatch(e) == e.kind = "ChecksumMismatch"

\* The result VerifyCommand::execute returns when it found issues.
VerifyOutput(errors, fixed_count) ==
    [kind |-> "issues", issues |-> errors, fixed_count |-> fixed_count]

\* VerifyCommand::execute up to the loop of --fix.
VerifyStart ==
    LET errors          == verify_migrations(ledger, dir)
        checksum_errors == SelectSeq(errors, IsChecksumMismatch)
    IN  \E fix \in BOOLEAN, query_ok \in BOOLEAN :
          /\ Begin([name |-> "verify", fix |-> fix])
          /\ IF ~query_ok
             THEN ReturnAtStart([kind |-> "error", error |-> "QueryError"])
             ELSE IF ScanOutcome(dir) = "panic" THEN ReturnAfterScan(Panicked)
             ELSE IF ScanOutcome(dir) = "error" THEN ReturnAfterScan(ScanFailed)
             ELSE IF errors = <<>>
             THEN ReturnAfterScan([kind |-> "success", message |-> "All migrations verified successfully"])
             ELSE IF fix /\ checksum_errors # <<>>
             THEN /\ pc' = "fix"
                  /\ cands' = checksum_errors
                  /\ idx' = 1
                  /\ stmts' = <<>>
                  /\ result' = VerifyOutput(errors, 0)
                  /\ UNCHANGED << dir, ledger, edits >>
             ELSE ReturnAfterScan(VerifyOutput(errors, 0))

\* One turn of the loop of --fix: fix_checksum_mismatch on a reported
\* mismatch; a failure is reported and the loop goes on.
VerifyFix ==
    /\ pc = "fix"
    /\ \E query_ok \in BOOLEAN :
         /\ ledger' = IF query_ok
                      THEN update_migration_checksum(ledger, cands[idx].version, cands[idx].actual)
                      ELSE ledger
         /\ done_count' = IF query_ok THEN done_count + 1 ELSE done_count
         /\ done' = IF query_ok THEN Append(done, cands[idx].version) ELSE done
         /\ effects' = IF query_ok
                       THEN Append(effects, Effect("UPDATE", cands[idx].version))
                       ELSE effects
         /\ IF idx < Len(cands)
            THEN /\ idx' = idx + 1
                 /\ pc' = "fix"
                 /\ UNCHANGED result
            ELSE /\ idx' = idx
                 /\ pc' = "done"
                 /\ result' = [result EXCEPT !.fixed_count = done_count']
         /\ UNCHANGED << dir, edits, cmd, cands, stmts, ledger0 >>

(***************************************************************************)
(* commands/status.rs                                                      *)
(***************************************************************************)

\* invalid_files of StatusCommand::execute: the names of the scanned files
\* whose version is neither applied nor pending, listed under "Invalid
\* Migration Files".
invalid_files(applied_migrations, all_files, pending_migrations) ==
    LET applied_versions == {applied_migrations[i].version : i \in DOMAIN applied_migrations}
        Neither(f) == /\ f.version \notin applied_versions
                      /\ ~\E i \in DOMAIN pending_migrations :
                             pending_migrations[i].version = f.version
        listed == SelectSeq(all_files, Neither)
    IN  [i \in DOMAIN listed |-> listed[i].file_path]

\* The data StatusCommand::execute returns, and the list of invalid files of
\* its text (written with --verbose only).
StatusOutput(applied_migrations, all_files, pending_migrations, verbose) ==
    [kind               |-> "status",
     invalid_files      |-> IF verbose
                            THEN invalid_files(applied_migrations, all_files,
                                               pending_migrations)
                            ELSE <<>>,
     current_version    |-> IF applied_migrations = <<>>
                            THEN "None"
                            ELSE applied_migrations[Len(applied_migrations)].version,
     applied_count      |-> Len(applied_migrations),
     pending_count      |-> Len(pending_migrations),
     total_files        |-> Len(all_files),
     up_to_date         |-> pending_migrations = <<>>,
     applied_migrations |-> applied_migrations,
     pending_migrations |-> Versions(pending_migrations)]

\* StatusCommand::execute: the applied records, the scan, the pending files
\* (which reads the applied records again), then the report.
StatusStart ==
    LET applied_migrations == get_applied_migrations(ledger)
        all_files          == get_migration_files(dir)
        pending_migrations == get_pending_migrations(ledger, dir)
    IN  \E verbose \in BOOLEAN, query_ok \in BOOLEAN, pending_query_ok \in BOOLEAN :
          /\ Begin([name |-> "status", verbose |-> verbose])
          /\ IF ~query_ok
             THEN ReturnAtStart([kind |-> "error", error |-> "QueryError"])
             ELSE IF ScanOutcome(dir) = "panic" THEN ReturnAfterScan(Panicked)
             ELSE IF ScanOutcome(dir) = "error" THEN ReturnAfterScan(ScanFailed)
             ELSE IF ~pending_query_ok
             THEN ReturnAfterScan([kind |-> "error", error |-> "QueryError"])
             ELSE ReturnAfterScan(StatusOutput(applied_migrations, all_files,
                                               pending_migrations, verbose))

(***************************************************************************)
(* commands/reset.rs and reset_migrations.  The configuration is loaded by *)
(* each process, so allow_destructive is an input of the command.          *)
(***************************************************************************)

\* The gate with a slip: reset_migrations does not read the configuration.
ResetNeverRefused(allow_destructive) == FALSE

\* The gate of reset_migrations.
ResetRefused(allow_destructive) == ~allow_destructive

\* The confirmation with a slip: --yes is not consulted.
ConfirmationNeverRequired(yes) == FALSE

\* ResetCommand::execute returns for confirmation unless --yes is given.
ConfirmationRequired(yes) == ~yes

\* The result of the reset when the engine failed.
ResetFailed(error) == [kind |-> "error", error |-> error]

\* ResetCommand::execute up to its call of reset_migrations.
ResetStart ==
    \E allow_destructive \in BOOLEAN, yes \in BOOLEAN, query_ok \in BOOLEAN :
      /\ Begin([name |-> "reset", allow_destructive |-> allow_destructive, yes |-> yes])
      /\ IF ~allow_destructive
         THEN ReturnAtStart(ResetFailed("DestructiveDisabled"))
         ELSE IF ~query_ok
         THEN ReturnAtStart(ResetFailed("QueryError"))
         ELSE IF get_applied_migrations(ledger) = <<>>
         THEN ReturnAtStart([kind |-> "success", message |-> "No migrations to reset"])
         ELSE IF ConfirmationRequired(yes)
         THEN ReturnAtStart([kind |-> "confirmation_required",
                             migrations_to_reset |-> Len(get_applied_migrations(ledger))])
         ELSE EnterLoop("reset_migrations", <<>>)

\* reset_migrations called by another user of the library, whatever its
\* configuration.
ResetMigrationsCall ==
    \E allow_destructive \in BOOLEAN :
      /\ Begin([name |-> "reset_migrations", allow_destructive |-> allow_destructive])
      /\ EnterLoop("reset_migrations", <<>>)

\* reset_migrations: the gate and the DROP TABLE.  The rows are gone with
\* the table.
ResetDrop ==
    /\ pc = "reset_migrations"
    /\ \E query_ok \in BOOLEAN :
         IF ResetRefused(cmd.allow_destructive)
         THEN /\ pc' = "done"
              /\ result' = ResetFailed("ConfigError")
              /\ UNCHANGED << dir, ledger, edits, cmd, cands, idx, stmts,
                              done_count, done, ledger0, effects >>
         ELSE IF ~query_ok
         THEN /\ pc' = "done"
              /\ result' = ResetFailed("QueryError")
              /\ UNCHANGED << dir, ledger, edits, cmd, cands, idx, stmts,
                              done_count, done, ledger0, effects >>
         ELSE /\ ledger' = {}
              /\ effects' = Append(effects, Effect("DROP", "table"))
              /\ pc' = "reset_create"
              /\ UNCHANGED << dir, edits, cmd, cands, idx, stmts,
                              done_count, done, result, ledger0 >>

\* reset_migrations: initialize_schema creates the table anew, empty.
ResetCreate ==
    /\ pc = "reset_create"
    /\ \E query_ok \in BOOLEAN :
         /\ pc' = "done"
         /\ effects' = IF query_ok
                       THEN Append(effects, Effect("CREATE", "table"))
                       ELSE effects
         /\ result' = IF ~query_ok THEN ResetFailed("QueryError")
                       ELSE IF cmd.name = "reset"
                       THEN [kind |-> "reset_completed",
                             migrations_reset |-> Cardinality(ledger0)]
                       ELSE [kind |-> "ok"]
         /\ UNCHANGED << dir, ledger, edits, cmd, cands, idx, stmts,
                         done_count, done, ledger0 >>

(***************************************************************************)
(* The process and its environment.  The operator edits the directory      *)
(* between commands; the process exits after its command returned and may  *)
(* be killed at any step before.  What outlives it is the directory and    *)
(* the database.                                                           *)
(***************************************************************************)

ProcessEnds ==
    /\ pc' = "idle"
    /\ cmd' = NoCommand
    /\ cands' = <<>>
    /\ idx' = 0
    /\ stmts' = <<>>
    /\ done_count' = 0
    /\ done' = <<>>
    /\ result' = NoResult
    /\ ledger0' = {}
    /\ effects' = <<>>
    /\ UNCHANGED << dir, ledger, edits >>

Exit == pc = "done" /\ ProcessEnds

Interrupt == pc \notin {"idle", "done"} /\ ProcessEnds

WriteFile ==
    /\ pc = "idle"
    /\ edits < MaxEdits
    /\ \E name \in FileNames, content \in Contents :
         /\ dir[name] # Some(content)
         /\ dir' = [dir EXCEPT ![name] = Some(content)]
    /\ edits' = edits + 1
    /\ UNCHANGED << ledger, cmd, pc, cands, idx, stmts, done_count, done,
                    result, ledger0, effects >>

DeleteFile ==
    /\ pc = "idle"
    /\ edits < MaxEdits
    /\ \E name \in FileNames :
         /\ dir[name] # None
         /\ dir' = [dir EXCEPT ![name] = None]
    /\ edits' = edits + 1
    /\ UNCHANGED << ledger, cmd, pc, cands, idx, stmts, done_count, done,
                    result, ledger0, effects >>

Next ==
    \/ UpStart
    \/ ApplyCheck
    \/ ApplyExec
    \/ ApplyRecord
    \/ DownStart
    \/ RollbackCheck
    \/ RollbackExec
    \/ RollbackRemove
    \/ ForceRemove
    \/ VerifyStart
    \/ VerifyFix
    \/ StatusStart
    \/ ResetStart
    \/ ResetMigrationsCall
    \/ ResetDrop
    \/ ResetCreate
    \/ Exit
    \/ Interrupt
    \/ WriteFile
    \/ DeleteFile

Spec == Init /\ [][Next]_vars

(***************************************************************************)
(* Verification on its own: the ledger and the directory are independent   *)
(* and both outlive the process, so verify may meet any ledger with any    *)
(* directory.  SpecVerify starts the verify command from each of them.     *)
(***************************************************************************)

VersionOf(name) == extract_version_from_filename(name).val

\* The ledger that holds, for each file name in DOMAIN sums, the row of its
\* version with the checksum of the content sums gives it.
LedgerOf(sums) ==
    { [ version     |-> VersionOf(n),
        applied_at  |-> Cardinality({m \in DOMAIN sums : StrLess(m, n)}),
        checksum    |-> calculate_checksum(sums[n]),
        description |-> extract_description_from_filename(n) ] : n \in DOMAIN sums }

InitVerify ==
    /\ dir \in [FileNames -> {None, Some(ContentFull), Some(ContentEdited)}]
    /\ ledger \in { LedgerOf(sums) :
                       sums \in UNION { [S -> {ContentFull, ContentEdited}] :
                                          S \in SUBSET {NameA, NameB, NameC} } }
    /\ edits = 0
    /\ cmd = NoCommand
    /\ pc = "idle"
    /\ cands = <<>>
    /\ idx = 0
    /\ stmts = <<>>
    /\ done_count = 0
    /\ done = <<>>
    /\ result = NoResult
    /\ ledger0 = {}
    /\ effects = <<>>

NextVerify ==
    \/ VerifyStart
    \/ VerifyFix
    \/ Exit

SpecVerify == InitVerify /\ [][NextVerify]_vars

(***************************************************************************)
(* Vocabulary of the properties.                                           *)
(***************************************************************************)

LedgerVersions(table) == {r.version : r \in table}

\* The rows the command has added to the ledger.
Added == ledger \ ledger0

\* The UP statements of a migration file, in file order.
UpStatements(file) == split_cql_statements(parse_migration_content(file.content).up)

\* The statements (UP or DOWN) the command executed for candidate j.
StatementsOf(j) ==
    SelectSeq(effects, LAMBDA e : e.idx = j /\ e.op \in {"UP", "DOWN"})

\* The files of the directory that carry this version.
FilesOf(version) ==
    LET files == get_migration_files(dir)
    IN  {files[k] : k \in {i \in 1..Len(files) : files[i].version = version}}

UpFailed == pc = "done" /\ cmd.name = "up" /\ result.kind = "failed"

DownFailed == pc = "done" /\ cmd.name = "down" /\ result.kind = "failed"

\* An apply run took the whole pending set and completed without failure.
WholePendingApplied ==
    /\ pc = "done"
    /\ cmd.name = "up"
    /\ result.kind = "applied"
    /\ Len(cands) = Len(get_pending_migrations(ledger0, dir))

(***************************************************************************)
(* C1  Fail-fast apply.  When an apply batch stops at candidate i (idx),   *)
(* the ledger is the ledger before the batch plus the rows of candidates   *)
(* 1..i-1 and nothing else: no row was written for candidates i..N, and no *)
(* statement of a candidate after i has been executed.                     *)
(***************************************************************************)
C1_FailFastApply ==
    UpFailed =>
      /\ ledger0 \subseteq ledger
      /\ \A r \in Added :
            \E j \in 1..(idx - 1) : r = MigrationRow(cands[j], r.applied_at)
      /\ \A j \in 1..(idx - 1) : \E r \in Added : r.version = cands[j].version
      /\ \A j \in idx..Len(cands) :
            cands[j].version \notin {cands[k].version : k \in 1..(idx - 1)}
              => cands[j].version \notin LedgerVersions(ledger)
      /\ \A k \in DOMAIN effects : effects[k].idx <= idx

\* A batch of three stopped at its second candidate, the first one recorded.
C1_Witness ==
    /\ UpFailed
    /\ idx = 2
    /\ Len(cands) = 3
    /\ Cardinality(Added) = 1

(***************************************************************************)
(* C2  Fail-fast rollback.  When a rollback batch, forced or not, stops at *)
(* candidate i (idx), the rows of candidates 1..i-1 are gone, the rows of  *)
(* candidates i..K are still in the ledger, nothing else changed, and no   *)
(* statement of a candidate after i has been executed.                     *)
(***************************************************************************)
C2_FailFastRollback ==
    DownFailed =>
      /\ ledger = ledger0 \ {cands[j] : j \in 1..(idx - 1)}
      /\ \A j \in 1..(idx - 1) : cands[j].version \notin LedgerVersions(ledger)
      /\ \A j \in idx..Len(cands) : cands[j] \in ledger
      /\ \A k \in DOMAIN effects : effects[k].idx <= idx

\* A forced batch of three stopped at its second candidate, the first one
\* removed.
C2_Witness ==
    /\ DownFailed
    /\ cmd.force
    /\ idx = 2
    /\ Len(cands) = 3
    /\ Cardinality(ledger0 \ ledger) = 1

(***************************************************************************)
(* C3  Apply idempotence.  When an apply run over the whole pending set    *)
(* has completed without failure, the pending set a second run computes    *)
(* from the same files is empty; and an apply run that finds the pending   *)
(* set empty returns at once, with no statement executed and the ledger    *)
(* as it was.                                                              *)
(***************************************************************************)
C3_ApplyIdempotent ==
    /\ WholePendingApplied => get_pending_migrations(ledger, dir) = <<>>
    /\ ( /\ cmd.name = "up"
         /\ get_pending_migrations(ledger0, dir) = <<>> )
       => /\ pc = "done"
          /\ result.kind \in {"success", "error"}
          /\ ledger = ledger0
          /\ effects = <<>>

\* A run over a pending set of three has completed.
C3_Witness ==
    /\ WholePendingApplied
    /\ Len(cands) = 3
    /\ get_pending_migrations(ledger, dir) = <<>>

(***************************************************************************)
(* C5  Interruption consistency.  At every step of an apply batch, each    *)
(* row the batch has added was inserted after all the UP statements of its *)
(* migration had been executed, each successfully and in file order; and   *)
(* killing the process changes neither the ledger nor the directory.       *)
(***************************************************************************)
\* The UP statements executed for candidate j before position p of the history.
UpBefore(j, p) ==
    LET before == SubSeq(effects, 1, p - 1)
        ups    == SelectSeq(before, LAMBDA e : e.idx = j /\ e.op = "UP")
    IN  [k \in 1..Len(ups) |-> ups[k].arg]

C5_RecordedAfterAllUp ==
    cmd.name = "up" =>
      /\ \A p \in DOMAIN effects :
            effects[p].op = "INSERT"
              => UpBefore(effects[p].idx, p) = UpStatements(cands[effects[p].idx])
      /\ \A r \in Added :
            \E p \in DOMAIN effects :
              /\ effects[p].op = "INSERT"
              /\ r = MigrationRow(cands[effects[p].idx], r.applied_at)

C5_InterruptionConsistency ==
    /\ []C5_RecordedAfterAllUp
    /\ [][(pc \notin {"idle", "done"} /\ pc' = "idle")
            => (ledger' = ledger /\ dir' = dir)]_vars

\* The batch is at work on its second candidate, one statement executed, the
\* first candidate recorded.
C5_Witness ==
    /\ cmd.name = "up"
    /\ pc = "apply_exec"
    /\ idx = 2
    /\ Cardinality(Added) = 1
    /\ Len(StatementsOf(2)) = 1

(***************************************************************************)
(* C6  Rollback without a DOWN section.  For a candidate of a rollback     *)
(* batch whose file parses and has no DOWN section: no statement is        *)
(* executed for it; without --force the batch stops at it with a           *)
(* RollbackError (or with the error of the database when the applied check *)
(* itself failed) and its row stays; with --force the batch passes it only *)
(* by deleting its row, and stops at it only on a database error.          *)
(***************************************************************************)
NoDownSection(version) ==
    /\ FilesOf(version) # {}
    /\ \A f \in FilesOf(version) :
          /\ parse_migration_content(f.content).ok
          /\ parse_migration_content(f.content).down = None

\* Candidate j has been processed and the batch went on or completed.
Passed(j) == j < idx \/ (j = idx /\ pc = "done" /\ result.kind = "rolled_back")

C6_RollbackWithoutDown ==
    cmd.name = "down" =>
      \A j \in 1..Len(cands) :
        NoDownSection(cands[j].version) =>
          /\ StatementsOf(j) = <<>>
          /\ Passed(j) => (cmd.force /\ cands[j] \notin ledger)
          /\ ~cmd.force => cands[j] \in ledger
          /\ (j = idx /\ pc = "done" /\ ~cmd.force)
               => /\ result.kind = "failed"
                  /\ result.error \in {"RollbackError", "QueryError"}
          /\ (j = idx /\ pc = "done" /\ cmd.force /\ result.kind = "failed")
               => /\ result.error \in {"QueryError", "ForceFailed"}
                  /\ cands[j] \in ledger

\* A forced batch has removed the row of a migration without DOWN section.
C6_Witness ==
    /\ cmd.name = "down"
    /\ cmd.force
    /\ pc = "done"
    /\ result.kind = "rolled_back"
    /\ \E j \in 1..Len(cands) :
         NoDownSection(cands[j].version) /\ cands[j] \notin ledger

(***************************************************************************)
(* C4  Resumption.  When an apply batch has stopped at candidate i (idx),  *)
(* the pending set a new run computes from the same files holds none of    *)
(* the candidates 1..i-1 and starts with candidate i; and a run over the   *)
(* whole pending set that completes leaves the pending set empty and each  *)
(* of its candidates recorded exactly once.                                *)
(***************************************************************************)
C4_Resumption ==
    /\ UpFailed =>
         LET pending == get_pending_migrations(ledger, dir)
         IN  /\ pending # <<>>
             /\ pending[1] = cands[idx]
             /\ \A j \in 1..(idx - 1), k \in DOMAIN pending : pending[k] # cands[j]
    /\ WholePendingApplied =>
         /\ get_pending_migrations(ledger, dir) = <<>>
         /\ \A j \in DOMAIN cands :
               Cardinality({r \in ledger : r = MigrationRow(cands[j], r.applied_at)}) = 1

(***************************************************************************)
(* C7  Rollback of a version whose file is gone.  For a candidate of a     *)
(* rollback batch with no file of its version in the directory: no         *)
(* statement is executed for it; without --force the batch stops at it     *)
(* with MigrationNotFound (or the error of the database) and its row       *)
(* stays; with --force the batch stops at it only on an error of the       *)
(* database, and passes it with its row removed.                           *)
(***************************************************************************)
C7_RollbackDeletedFile ==
    cmd.name = "down" =>
      \A j \in 1..Len(cands) :
        FilesOf(cands[j].version) = {} =>
          /\ StatementsOf(j) = <<>>
          /\ Passed(j) => (cmd.force /\ cands[j] \notin ledger)
          /\ ~cmd.force => cands[j] \in ledger
          /\ (j = idx /\ pc = "done" /\ ~cmd.force)
               => /\ result.kind = "failed"
                  /\ result.error \in {"MigrationNotFound", "QueryError"}
          /\ (j = idx /\ pc = "done" /\ cmd.force /\ result.kind = "failed")
               => result.error \in {"QueryError", "ForceFailed"}

(***************************************************************************)
(* Vocabulary of the verification properties.                              *)
(***************************************************************************)

\* verify has read the ledger and returned or entered the loop of --fix.
VerifyReturned ==
    /\ cmd.name = "verify"
    /\ pc \in {"fix", "done"}
    /\ result.kind \in {"issues", "success"}

\* The issues verify_migrations returned to the command.
Issues == IF result.kind = "issues" THEN result.issues ELSE <<>>

IssuesOf(version) ==
    {k \in DOMAIN Issues : Issues[k].version = version}

MismatchesOf(version) ==
    {k \in IssuesOf(version) : Issues[k].kind = "ChecksumMismatch"}

MissingOf(version) ==
    {k \in IssuesOf(version) : Issues[k].kind = "MigrationNotFound"}

(***************************************************************************)
(* C8  Verification completeness.  For every ledger and directory, the     *)
(* issues of verify hold exactly one ChecksumMismatch for each applied     *)
(* version with a file whose checksum differs from the recorded one,       *)
(* exactly one MigrationNotFound for each applied version without a file,  *)
(* nothing for an applied version whose files all have the recorded        *)
(* checksum, and nothing for a version that is not applied.                *)
(***************************************************************************)
C8_VerifyComplete ==
    VerifyReturned =>
      /\ \A r \in ledger0 :
            /\ (\E f \in FilesOf(r.version) : f.checksum # r.checksum)
                  => ( Cardinality(MismatchesOf(r.version)) = 1
                       /\ MissingOf(r.version) = {} )
            /\ FilesOf(r.version) = {}
                  => ( Cardinality(MissingOf(r.version)) = 1
                       /\ MismatchesOf(r.version) = {} )
            /\ ( FilesOf(r.version) # {}
                 /\ \A f \in FilesOf(r.version) : f.checksum = r.checksum )
                  => IssuesOf(r.version) = {}
      /\ \A k \in DOMAIN Issues : Issues[k].version \in LedgerVersions(ledger0)

(***************************************************************************)
(* C9  Order and content of the issues.  The issues of verify are in       *)
(* ascending order of version, and each ChecksumMismatch carries the       *)
(* checksum of the ledger row as expected and the checksum of a current    *)
(* file of that version as actual.                                         *)
(***************************************************************************)
C9_IssuesInLedgerOrder ==
    VerifyReturned =>
      /\ \A i, j \in DOMAIN Issues :
            i < j => StrLess(Issues[i].version, Issues[j].version)
      /\ \A k \in DOMAIN Issues :
            Issues[k].kind = "ChecksumMismatch" =>
              /\ \E r \in ledger0 :
                    r.version = Issues[k].version /\ r.checksum = Issues[k].expected
              /\ \E f \in FilesOf(Issues[k].version) :
                    f.checksum = Issues[k].actual
              /\ Issues[k].expected # Issues[k].actual

\* Three issues, a ChecksumMismatch between two missing files.
C9_Witness ==
    /\ VerifyReturned
    /\ Len(Issues) = 3
    /\ Issues[1].kind = "MigrationNotFound"
    /\ Issues[2].kind = "ChecksumMismatch"
    /\ Issues[3].kind = "MigrationNotFound"

(***************************************************************************)
(* C10  Repair round trip.  When a file of an applied version no longer    *)
(* has the content that was applied, verify returns exactly one            *)
(* ChecksumMismatch for the version; and once verify --fix has repaired a  *)
(* version, a verify that follows returns no issue for it.                 *)
(***************************************************************************)
C10_RepairRoundTrip ==
    VerifyReturned =>
      /\ \A r \in ledger0 :
            (\E f \in FilesOf(r.version) : f.checksum # r.checksum)
              => Cardinality(MismatchesOf(r.version)) = 1
      /\ pc = "done" =>
            LET again == verify_migrations(ledger, dir)
            IN  \A k \in DOMAIN done, i \in DOMAIN again : again[i].version # done[k]

(***************************************************************************)
(* C11  Frame of repair.  At every step of verify, with or without --fix:  *)
(* the ledger has the rows it had, up to their checksum (none added, none  *)
(* removed, version, applied_at and description as they were); a row whose *)
(* checksum changed was reported as ChecksumMismatch and now carries the   *)
(* reported actual checksum; a row whose file is missing is as it was; and *)
(* the only statements sent are the UPDATEs of the repaired versions.      *)
(***************************************************************************)
\* A ledger row without its checksum.
Identity(r) ==
    [version |-> r.version, applied_at |-> r.applied_at, description |-> r.description]

C11_RepairFrame ==
    cmd.name = "verify" =>
      /\ {Identity(r) : r \in ledger} = {Identity(r) : r \in ledger0}
      /\ Cardinality(ledger) = Cardinality(ledger0)
      /\ \A r \in ledger \ ledger0 :
            \E k \in MismatchesOf(r.version) : r.checksum = Issues[k].actual
      /\ \A r \in ledger0 : FilesOf(r.version) = {} => r \in ledger
      /\ \A k \in DOMAIN effects :
            /\ effects[k].op = "UPDATE"
            /\ MismatchesOf(effects[k].arg) # {}

\* verify --fix has repaired a version while another one has no file.
C11_Witness ==
    /\ cmd.name = "verify"
    /\ pc = "done"
    /\ done_count >= 1
    /\ ledger # ledger0
    /\ \E r \in ledger0 : FilesOf(r.version) = {}

(***************************************************************************)
(* C12  Destructive gate.  With allow_destructive off, a reset sends no    *)
(* statement and leaves the ledger as it was, whether it came through      *)
(* ResetCommand or through a direct call of reset_migrations; and the      *)
(* direct call returns ConfigError.                                        *)
(***************************************************************************)
C12_DestructiveGate ==
    (cmd.name \in {"reset", "reset_migrations"} /\ ~cmd.allow_destructive) =>
      /\ ledger = ledger0
      /\ effects = <<>>
      /\ pc \in {"reset_migrations", "done"}
      /\ pc = "done" =>
            /\ result.kind = "error"
            /\ cmd.name = "reset_migrations" => result.error = "ConfigError"

\* A direct call of reset_migrations was refused on a ledger with rows.
C12_Witness ==
    /\ cmd.name = "reset_migrations"
    /\ ~cmd.allow_destructive
    /\ pc = "done"
    /\ result = ResetFailed("ConfigError")
    /\ ledger # {}

(***************************************************************************)
(* C13  Gates of ResetCommand.  At every step of the reset command: if a   *)
(* DROP or CREATE has been sent or the ledger differs from what it was,    *)
(* then allow_destructive is on, --yes was given and the ledger had rows;  *)
(* and the command sends nothing but the DROP and the CREATE.              *)
(***************************************************************************)
C13_ResetCommandGates ==
    cmd.name = "reset" =>
      /\ (effects # <<>> \/ ledger # ledger0 \/ pc \in {"reset_migrations", "reset_create"})
            => (cmd.allow_destructive /\ cmd.yes /\ ledger0 # {})
      /\ \A k \in DOMAIN effects : effects[k].op \in {"DROP", "CREATE"}

\* The command has dropped and recreated the table.
C13_Witness ==
    /\ cmd.name = "reset"
    /\ pc = "done"
    /\ result.kind = "reset_completed"
    /\ Len(effects) = 2
    /\ Cardinality(ledger0) = 3

(***************************************************************************)
(* C14  Effect of a successful reset.  After a completed reset the ledger  *)
(* is empty, no UP or DOWN statement has been executed and every file of   *)
(* the scan is pending; and an apply run that starts from the empty ledger *)
(* over all the files executes the UP statements of every one of them,     *)
(* unless the database fails or a file does not parse.                     *)
(***************************************************************************)
C14_ResetEffect ==
    /\ (cmd.name = "reset" /\ pc = "done" /\ result.kind = "reset_completed") =>
         /\ ledger = {}
         /\ \A k \in DOMAIN effects : effects[k].op \notin {"UP", "DOWN"}
         /\ get_pending_migrations(ledger, dir) = get_migration_files(dir)
    /\ (cmd.name = "up" /\ pc = "done" /\ ledger0 = {}
          /\ cands = get_migration_files(dir)) =>
         /\ result.kind = "failed" => result.error \in {"QueryError", "InvalidFormat"}
         /\ result.kind = "applied" =>
               \A j \in DOMAIN cands :
                 [k \in DOMAIN StatementsOf(j) |-> StatementsOf(j)[k].arg]
                   = UpStatements(cands[j])

(***************************************************************************)
(* C15  Pending is the scan minus the applied versions.  For the ledger    *)
(* and directory of every state: the pending sequence is the scan with the *)
(* files whose version is in the ledger taken out and the others left in   *)
(* scan order; the ledger rows without a file make no difference; and the  *)
(* candidates of an apply run are a prefix of the pending sequence of the  *)
(* ledger it read.                                                         *)
(***************************************************************************)
\* The positions of the scan whose version is not in the table.
KeptPositions(table, d) ==
    LET scan == get_migration_files(d)
    IN  {k \in DOMAIN scan : scan[k].version \notin LedgerVersions(table)}

C15_PendingIsScanMinusApplied ==
    LET scan    == get_migration_files(dir)
        pending == get_pending_migrations(ledger, dir)
        keep    == KeptPositions(ledger, dir)
        withFile == {r \in ledger : FilesOf(r.version) # {}}
    IN  /\ Len(pending) = Cardinality(keep)
        /\ \A k \in keep :
              pending[1 + Cardinality({m \in keep : m < k})] = scan[k]
        /\ get_pending_migrations(withFile, dir) = pending
        /\ (cmd.name = "up" /\ cands # <<>>) =>
              cands = Take(get_pending_migrations(ledger0, dir), Len(cands))

\* An apply run reads a ledger with a row without file and a row with file;
\* one file is pending.
C15_Witness ==
    /\ cmd.name = "up"
    /\ pc = "apply_check"
    /\ Len(cands) = 1
    /\ Cardinality(ledger0) = 2
    /\ \E r \in ledger0 : FilesOf(r.version) = {}
    /\ \E r \in ledger0 : FilesOf(r.version) # {}

(***************************************************************************)
(* The scan and the apply batch on their own: the directory holds any set  *)
(* of names out of ScanNames, among them a name that has the extension     *)
(* twice and a name whose description has a character below the dot.       *)
(* SpecScan runs apply batches from each such directory.                   *)
(***************************************************************************)

NameHyphen ==
    << "2", "0", "2", "5", "0", "1", "0", "1", "_", "0", "0", "1", "_", "a",
       "-", "b", ".", "c", "q", "l" >>

ScanNames == {NameA, NameHyphen, NameADup, NameB}

InitScan ==
    /\ dir \in [ScanNames -> {None, Some(ContentFull)}]
    /\ ledger = {}
    /\ edits = 0
    /\ cmd = NoCommand
    /\ pc = "idle"
    /\ cands = <<>>
    /\ idx = 0
    /\ stmts = <<>>
    /\ done_count = 0
    /\ done = <<>>
    /\ result = NoResult
    /\ ledger0 = {}
    /\ effects = <<>>

NextScan ==
    \/ UpStart
    \/ ApplyCheck
    \/ ApplyExec
    \/ ApplyRecord
    \/ Exit

SpecScan == InitScan /\ [][NextScan]_vars

(***************************************************************************)
(* C16  Apply order.  The candidates of an apply batch are in strictly     *)
(* ascending order of version; they are as many as the count allows (all   *)
(* pending files without a count, the smaller of the count and the number  *)
(* of pending files with one); and every pending file left out has a       *)
(* version above those of all the candidates.                              *)
(***************************************************************************)
\* The files pending for the ledger the command read.
PendingSet ==
    LET pending == get_pending_migrations(ledger0, dir)
    IN  {pending[k] : k \in DOMAIN pending}

C16_ApplyOrder ==
    (cmd.name = "up" /\ cands # <<>>) =>
      LET chosen == {cands[j] : j \in DOMAIN cands}
          n      == Cardinality(PendingSet)
      IN  /\ \A i, j \in DOMAIN cands :
                i < j => StrLess(cands[i].version, cands[j].version)
          /\ Len(cands) = IF cmd.count = None THEN n
                          ELSE IF cmd.count.val < n THEN cmd.count.val ELSE n
          /\ chosen \subseteq PendingSet
          /\ \A f \in PendingSet \ chosen, c \in chosen :
                StrLess(c.version, f.version)

(***************************************************************************)
(* C18  Version uniqueness across files.  The scan of the directory never  *)
(* holds two files with the same version.                                  *)
(***************************************************************************)
C18_ScanVersionsUnique ==
    LET files == get_migration_files(dir)
    IN  \A i, j \in DOMAIN files :
          i # j => files[i].version # files[j].version

(***************************************************************************)
(* Rollback on its own: the ledger outlives the processes that wrote it,   *)
(* and files may have been added between apply runs, so the order of the   *)
(* applied_at instants need not be the order of the versions.  SpecDown    *)
(* runs rollback batches from ledgers written in version order and in the  *)
(* opposite order.                                                         *)
(***************************************************************************)

\* The ledger that holds the rows of these files, applied in ascending
\* order of name, or in descending order when newestFirst.
LedgerApplied(names, newestFirst) ==
    { [ version     |-> VersionOf(n),
        applied_at  |-> IF newestFirst
                        THEN Cardinality({m \in names : StrLess(n, m)})
                        ELSE Cardinality({m \in names : StrLess(m, n)}),
        checksum    |-> calculate_checksum(ContentFull),
        description |-> extract_description_from_filename(n) ] : n \in names }

InitDown ==
    /\ dir \in { d \in [FileNames -> {None, Some(ContentFull), Some(ContentNoDown)}] :
                   \A n \in FileNames \ {NameC} : d[n] # Some(ContentNoDown) }
    /\ ledger \in { LedgerApplied(S, b) :
                       S \in SUBSET {NameA, NameB, NameC}, b \in BOOLEAN }
    /\ edits = 0
    /\ cmd = NoCommand
    /\ pc = "idle"
    /\ cands = <<>>
    /\ idx = 0
    /\ stmts = <<>>
    /\ done_count = 0
    /\ done = <<>>
    /\ result = NoResult
    /\ ledger0 = {}
    /\ effects = <<>>

NextDown ==
    \/ DownStart
    \/ RollbackCheck
    \/ RollbackExec
    \/ RollbackRemove
    \/ ForceRemove
    \/ Exit

SpecDown == InitDown /\ [][NextDown]_vars

(***************************************************************************)
(* C17  Rollback selection.  The candidates of a rollback batch with count *)
(* K are min(K, |ledger|) rows of the ledger it read, in strictly          *)
(* descending order of version, and every row left out has a version below *)
(* those of all the candidates, whatever the applied_at instants are; the  *)
(* dry run lists the same versions; and the batch removes rows of          *)
(* candidates only and changes no other row.                               *)
(***************************************************************************)
\* The versions a rollback with count K has to take from this table: the
\* K highest, highest first.
RECURSIVE HighestVersions(_, _)
HighestVersions(table, k) ==
    IF k = 0 \/ table = {} THEN <<>>
    ELSE LET top == CHOOSE r \in table :
                      \A q \in table \ {r} : StrLess(q.version, r.version)
         IN  << top.version >> \o HighestVersions(table \ {top}, k - 1)

C17_RollbackSelection ==
    cmd.name = "down" =>
      /\ cands # <<>> =>
            /\ Versions(cands) = HighestVersions(ledger0, cmd.count)
            /\ \A j \in DOMAIN cands : cands[j] \in ledger0
            /\ Len(cands) = IF cmd.count < Cardinality(ledger0)
                            THEN cmd.count ELSE Cardinality(ledger0)
      /\ (pc = "done" /\ result.kind = "dry_run") =>
            result.migrations = HighestVersions(ledger0, cmd.count)
      /\ ledger \subseteq ledger0
      /\ ledger0 \ ledger \subseteq {cands[j] : j \in DOMAIN cands}
      /\ \A k \in DOMAIN effects :
            effects[k].op = "DELETE" => effects[k].arg \in {cands[j].version : j \in DOMAIN cands}

\* A rollback of two out of three rows, the lowest version being the one
\* applied last.
C17_Witness ==
    /\ cmd.name = "down"
    /\ cmd.count = 2
    /\ pc = "done"
    /\ result.kind = "rolled_back"
    /\ Cardinality(ledger0) = 3
    /\ Cardinality(ledger) = 1
    /\ \E r, q \in ledger0 :
         StrLess(r.version, q.version) /\ r.applied_at > q.applied_at

(***************************************************************************)
(* C19  Version uniqueness in the ledger.  In every state the ledger has   *)
(* at most one row per version.  In an apply batch, no UP statement is     *)
(* executed and no row is inserted for a candidate whose version the       *)
(* ledger already holds (from before the batch or from an earlier          *)
(* candidate): the batch stops at it with AlreadyApplied (or with the      *)
(* error of the database) and the row of that version is the one that was  *)
(* there.                                                                  *)
(***************************************************************************)
\* The version of candidate j is in the ledger when its turn comes.
HeldBefore(j) ==
    \/ cands[j].version \in LedgerVersions(ledger0)
    \/ \E i \in 1..(j - 1) : cands[i].version = cands[j].version

C19_LedgerVersionsUnique ==
    /\ \A r, q \in ledger : r.version = q.version => r = q
    /\ cmd.name = "up" =>
         \A j \in DOMAIN cands :
           HeldBefore(j) =>
             /\ idx <= j
             /\ \A k \in DOMAIN effects : effects[k].idx # j
             /\ (idx = j /\ pc # "apply_check") =>
                   /\ UpFailed
                   /\ result.error \in {"AlreadyApplied", "QueryError"}
                   /\ \A r \in ledger :
                         r.version = cands[j].version =>
                           \/ r \in ledger0
                           \/ \E i \in 1..(j - 1) :
                                r = MigrationRow(cands[i], r.applied_at)

\* The batch stopped with AlreadyApplied at a file whose content is not the
\* one recorded for its version.
C19_Witness ==
    /\ UpFailed
    /\ result.error = "AlreadyApplied"
    /\ \E r \in ledger :
         r.version = cands[idx].version /\ r.checksum # cands[idx].checksum

(***************************************************************************)
(* Apply and rollback in turn, the files unchanged: SpecRoundTrip runs     *)
(* apply and rollback batches over files that all have a DOWN section,     *)
(* from ledgers written in version order and in the opposite order.        *)
(***************************************************************************)

InitRoundTrip ==
    /\ dir \in { d \in [FileNames -> {None, Some(ContentFull)}] :
                   \A n \in {NameA, NameB, NameC} : d[n] = Some(ContentFull) }
    /\ ledger \in { LedgerApplied(S, b) :
                       S \in SUBSET {NameA, NameB, NameC}, b \in BOOLEAN }
    /\ edits = 0
    /\ cmd = NoCommand
    /\ pc = "idle"
    /\ cands = <<>>
    /\ idx = 0
    /\ stmts = <<>>
    /\ done_count = 0
    /\ done = <<>>
    /\ result = NoResult
    /\ ledger0 = {}
    /\ effects = <<>>

NextRoundTrip ==
    \/ UpStart
    \/ ApplyCheck
    \/ ApplyExec
    \/ ApplyRecord
    \/ DownStart
    \/ RollbackCheck
    \/ RollbackExec
    \/ RollbackRemove
    \/ Exit

SpecRoundTrip == InitRoundTrip /\ [][NextRoundTrip]_vars

\* The DOWN statements of a migration file, in file order.
DownStatements(file) ==
    split_cql_statements(parse_migration_content(file.content).down.val)

\* The texts of the statements executed for candidate j.
TextsOf(j) == [k \in DOMAIN StatementsOf(j) |-> StatementsOf(j)[k].arg]

\* The statements were executed candidate after candidate.
InCandidateOrder ==
    \A k, m \in DOMAIN effects : k < m => effects[k].idx <= effects[m].idx

\* An apply batch has completed.
ApplyCompleted == pc = "done" /\ cmd.name = "up" /\ result.kind = "applied"

\* A rollback batch of as many rows as its count has completed.
RollbackCompleted ==
    /\ pc = "done"
    /\ cmd.name = "down"
    /\ result.kind = "rolled_back"
    /\ Len(cands) = cmd.count

\* The n rows of the table that were applied last.
LatestApplied(table, n) ==
    {r \in table : Cardinality({q \in table : q.applied_at > r.applied_at}) < n}

\* The ledger the rollback read is some ledger L plus the rows N an apply
\* batch of cmd.count migrations wrote on top of it from the present files,
\* all of them with a DOWN section.
WrittenByBatch(N) ==
    /\ Cardinality(N) = cmd.count
    /\ \A r \in N :
          \E f \in FilesOf(r.version) :
            /\ r = MigrationRow(f, r.applied_at)
            /\ parse_migration_content(f.content).ok
            /\ parse_migration_content(f.content).down # None
    /\ \A r, q \in N : r.applied_at < q.applied_at => StrLess(r.version, q.version)

\* What the apply half of the round trip does.
ApplyHalf ==
    ApplyCompleted =>
      /\ ledger0 \subseteq ledger
      /\ Cardinality(Added) = Len(cands)
      /\ \A j \in DOMAIN cands :
            /\ \E r \in Added : r = MigrationRow(cands[j], r.applied_at)
            /\ TextsOf(j) = UpStatements(cands[j])
      /\ InCandidateOrder

\* What the rollback half of the round trip does to the rows N.
RollbackHalf(N) ==
    /\ ledger = ledger0 \ N
    /\ {cands[j] : j \in DOMAIN cands} = N
    /\ \A i, j \in DOMAIN cands :
          i < j => cands[i].applied_at > cands[j].applied_at
    /\ \A j \in DOMAIN cands :
          \E f \in FilesOf(cands[j].version) : TextsOf(j) = DownStatements(f)
    /\ InCandidateOrder

(***************************************************************************)
(* C20  Apply/rollback round trip, as claimed.  A completed apply batch    *)
(* executes the UP statements of each candidate in order and writes one    *)
(* row per candidate with the version and checksum of its file; and a      *)
(* completed rollback of n, run on a ledger L plus the n rows an apply     *)
(* batch wrote last, executes the DOWN statements of those n migrations,   *)
(* last applied first, and leaves exactly L.                               *)
(***************************************************************************)
C20_RoundTrip ==
    /\ ApplyHalf
    /\ RollbackCompleted =>
         LET N == LatestApplied(ledger0, cmd.count)
         IN  WrittenByBatch(N) => RollbackHalf(N)

(***************************************************************************)
(* C20 amended: the same, for a ledger L whose versions are all below the  *)
(* versions of the n migrations applied on top of it.                      *)
(***************************************************************************)
C20_RoundTripAboveLedger ==
    /\ ApplyHalf
    /\ RollbackCompleted =>
         LET N == LatestApplied(ledger0, cmd.count)
         IN  ( /\ WrittenByBatch(N)
               /\ \A l \in ledger0 \ N, r \in N : StrLess(l.version, r.version) )
               => RollbackHalf(N)

\* A rollback of two has completed on a ledger of three rows applied in
\* version order, and one row is left.
C20_Witness ==
    /\ RollbackCompleted
    /\ cmd.count = 2
    /\ Cardinality(ledger0) = 3
    /\ WrittenByBatch(LatestApplied(ledger0, 2))
    /\ \A l \in ledger0 \ LatestApplied(ledger0, 2), r \in LatestApplied(ledger0, 2) :
         StrLess(l.version, r.version)
    /\ Cardinality(ledger) = 1

(***************************************************************************)
(* C21  Failures inside a batch are reported in a success payload.  An     *)
(* apply or rollback command returns a hard error only before its loop.    *)
(* When a candidate fails, the payload carries the versions of the         *)
(* candidates done before it, their count, the version of the failing      *)
(* candidate and the error; and in every payload of a batch the count is   *)
(* the number of rows the run added to, or removed from, the ledger.       *)
(***************************************************************************)
\* The versions of the candidates before the one at work.
DoneVersions == [j \in 1..(idx - 1) |-> cands[j].version]

C21_FailureInPayload ==
    /\ (pc = "done" /\ cmd.name \in {"up", "down"} /\ result.kind = "error")
         => (cands = <<>> /\ effects = <<>> /\ ledger = ledger0)
    /\ UpFailed =>
         /\ result.applied_migrations = DoneVersions
         /\ result.applied_count = Len(DoneVersions)
         /\ result.applied_count = Cardinality(ledger \ ledger0)
         /\ ledger0 \subseteq ledger
         /\ result.failed_migration = cands[idx].version
         /\ result.error \in {"QueryError", "AlreadyApplied", "InvalidFormat"}
    /\ DownFailed =>
         /\ result.rolled_back_migrations = DoneVersions
         /\ result.rollback_count = Len(DoneVersions)
         /\ result.rollback_count = Cardinality(ledger0 \ ledger)
         /\ ledger \subseteq ledger0
         /\ result.failed_migration = cands[idx].version
         /\ result.error \in {"QueryError", "MigrationNotFound", "InvalidFormat",
                              "RollbackError", "ForceFailed"}
    /\ ApplyCompleted =>
         /\ result.applied_count = Cardinality(ledger \ ledger0)
         /\ result.applied_migrations = Versions(cands)
    /\ (pc = "done" /\ cmd.name = "down" /\ result.kind = "rolled_back") =>
         /\ result.rollback_count = Cardinality(ledger0 \ ledger)
         /\ result.rolled_back_migrations = Versions(cands)

\* A rollback batch of three failed at its third candidate.
C21_Witness ==
    /\ DownFailed
    /\ result.rollback_count = 2
    /\ Cardinality(ledger) = 1
    /\ idx = 3

(***************************************************************************)
(* Read-only operations                                                    *)
(***************************************************************************)

\* The command in progress is one of the read-only ones.
ReadOnlyCommand ==
    \/ cmd.name = "status"
    \/ cmd.name = "verify" /\ ~cmd.fix
    \/ cmd.name \in {"up", "down"} /\ cmd.dry_run

\* The versions a run of up with the count of the command takes from the
\* ledger and the directory the command started with.
UpListing ==
    LET pending == get_pending_migrations(ledger0, dir)
    IN  Versions(IF cmd.count.tag = "Some"
                 THEN Take(pending, cmd.count.val)
                 ELSE pending)

\* C22: up --dry-run, down --dry-run, status and verify without --fix
\* return at once, execute no statement and leave the ledger as they found
\* it; the listing of a dry run and the candidates of a real run are the
\* same function of the ledger, the directory and the count.
C22_ReadOnly ==
    /\ ReadOnlyCommand =>
          /\ pc = "done"
          /\ effects = <<>>
          /\ ledger = ledger0
          /\ done = <<>>
    /\ (cmd.name \in {"up", "down"} /\ cmd.dry_run) =>
          result.kind \in {"error", "success", "dry_run"}
    /\ (cmd.name = "up" /\ result.kind = "dry_run") =>
          result.migrations = UpListing
    /\ (cmd.name = "up" /\ ~cmd.dry_run /\ result.kind \notin {"error", "success"}) =>
          Versions(cands) = UpListing
    /\ (cmd.name = "down" /\ result.kind = "dry_run") =>
          result.migrations = HighestVersions(ledger0, cmd.count)
    /\ (cmd.name = "down" /\ ~cmd.dry_run /\ result.kind \notin {"error", "success"}) =>
          Versions(cands) = HighestVersions(ledger0, cmd.count)

\* A dry run of up over a ledger with one record lists the two pending
\* versions.
C22_Witness ==
    /\ cmd.name = "up"
    /\ result.kind = "dry_run"
    /\ Len(result.migrations) = 2
    /\ Cardinality(ledger) = 1

(***************************************************************************)
(* File names on their own: the directory may hold any of PatternNames,    *)
(* and status reports what the scan derived from them.                     *)
(***************************************************************************)

\* 20250101_.cql: no digit after the underscore.
NameNoSeq ==
    << "2", "0", "2", "5", "0", "1", "0", "1", "_", ".", "c", "q", "l" >>
\* 20250101_003.cql.cql
NameCDup == NameC \o CqlExt
\* 2025010_001.cql: seven digits of date.
NameShortDate ==
    << "2", "0", "2", "5", "0", "1", "0", "_", "0", "0", "1",
       ".", "c", "q", "l" >>
\* 20250101_0a1.cql: a letter in the sequence number.
NameLetterSeq ==
    << "2", "0", "2", "5", "0", "1", "0", "1", "_", "0", "a", "1",
       ".", "c", "q", "l" >>

PatternNames ==
    {NameA, NameC, NameADup, NameNoSeq, NameCDup, NameShortDate, NameLetterSeq}

InitNames ==
    /\ dir \in [PatternNames -> {None, Some(ContentFull)}]
    /\ ledger = {}
    /\ edits = 0
    /\ cmd = NoCommand
    /\ pc = "idle"
    /\ cands = <<>>
    /\ idx = 0
    /\ stmts = <<>>
    /\ done_count = 0
    /\ done = <<>>
    /\ result = NoResult
    /\ ledger0 = {}
    /\ effects = <<>>

NextNames ==
    \/ StatusStart
    \/ Exit

SpecNames == InitNames /\ [][NextNames]_vars

\* The files of the directory.
Present == {n \in DOMAIN dir : dir[n].tag = "Some"}

\* The file name with one extension .cql removed.
Stem(filename) ==
    IF EndsWith(filename, CqlExt)
    THEN SubSeq(filename, 1, Len(filename) - Len(CqlExt))
    ELSE filename

\* Eight digits, an underscore, one or more digits, then an underscore or
\* the end of the text.
MatchesVersionPattern(stem) ==
    /\ Len(stem) >= 10
    /\ \A i \in 1..8 : stem[i] \in Digits
    /\ stem[9] = "_"
    /\ \E k \in 10..Len(stem) :
          /\ \A i \in 10..k : stem[i] \in Digits
          /\ k = Len(stem) \/ stem[k + 1] = "_"

\* C23: extract_version_from_filename accepts a file name exactly when its
\* stem is eight digits, an underscore, one or more digits, then an
\* underscore or the end.
C23_VersionPattern ==
    \A n \in Present :
        extract_version_from_filename(n).tag = "Some"
            <=> MatchesVersionPattern(Stem(n))

\* C24: on the names it accepts, extract_version_from_filename returns the
\* stem of the name and gives different names different versions.
C24_VersionInjective ==
    \A n \in Present :
        extract_version_from_filename(n).tag = "Some" =>
            /\ extract_version_from_filename(n).val = Stem(n)
            /\ \A m \in Present \ {n} :
                   extract_version_from_filename(m) # extract_version_from_filename(n)

(***************************************************************************)
(* File contents on their own: one file whose content is any of            *)
(* SectionContents, applied and rolled back.                               *)
(***************************************************************************)

\* "-- UP\n;\n-- DOWN\nc;\n": the UP section holds a terminator only.
ContentEmptyStatement ==
    << "-", "-", " ", "U", "P", "\n", ";", "\n",
       "-", "-", " ", "D", "O", "W", "N", "\n", "c", ";", "\n" >>
\* "-- UP\na;\n-- DOWN\n\n": the DOWN marker is followed by a blank line.
ContentBlankDown ==
    << "-", "-", " ", "U", "P", "\n", "a", ";", "\n",
       "-", "-", " ", "D", "O", "W", "N", "\n", "\n" >>
\* "-- UP\na;\n-- DOWN\nc;\n-- UPDATED\nd;\n": a comment in the DOWN section
\* whose text begins like the UP marker.
ContentUpdateNote ==
    << "-", "-", " ", "U", "P", "\n", "a", ";", "\n",
       "-", "-", " ", "D", "O", "W", "N", "\n", "c", ";", "\n",
       "-", "-", " ", "U", "P", "D", "A", "T", "E", "D", "\n", "d", ";", "\n" >>
\* "-- x\n\n-- UP\n-- y\n a ;; b\n-- DOWN\n\n c ;\n": comments and blank
\* lines before and after the markers, spaces and an empty segment.
ContentSpaced ==
    << "-", "-", " ", "x", "\n", "\n",
       "-", "-", " ", "U", "P", "\n", "-", "-", " ", "y", "\n",
       " ", "a", " ", ";", ";", " ", "b", "\n",
       "-", "-", " ", "D", "O", "W", "N", "\n", "\n", " ", "c", " ", ";", "\n" >>

\* The statement texts and the separators of the built contents.
StatementLists ==
    { << <<"a">> >>, << <<"a">>, <<"b">> >>, << <<"b">>, <<"a">> >>,
      << <<"a", " ", "b">>, <<"a">> >> }

DownLists == { <<>>, << <<"c">> >>, << <<"c">>, <<"d">> >> }

Separators == { << "\n" >>, << " " >> }

\* s1;sep s2;sep ... sm; and the end of the line, or nothing when there is
\* no statement.
Terminated(statements, sep) ==
    IF statements = <<>> THEN <<>>
    ELSE JoinWith([i \in DOMAIN statements |-> statements[i] \o << ";" >>], sep)
           \o << "\n" >>

\* A migration file as the template lays it out: the UP marker, the UP
\* statements, and optionally the DOWN marker and the DOWN statements.
Build(up_marker, ups, down, sep) ==
    up_marker \o << "\n" >> \o Terminated(ups, sep)
      \o (IF down.tag = "None" THEN <<>>
          ELSE down.val.marker \o << "\n" >> \o Terminated(down.val.statements, sep))

\* The parameters of the built contents.
BuildParameters ==
    [ up_marker : {MarkerUp, MarkerMigrateUp},
      ups       : StatementLists,
      down      : {None} \cup { Some([marker |-> m, statements |-> t]) :
                                  m \in {MarkerDown, MarkerMigrateDown},
                                  t \in DownLists },
      sep       : Separators ]

BuiltContents == { Build(p.up_marker, p.ups, p.down, p.sep) : p \in BuildParameters }

SectionContents ==
    {ContentFull, ContentNoDown, ContentNoUp, ContentEmptyStatement,
     ContentBlankDown, ContentUpdateNote, ContentSpaced} \cup BuiltContents

InitContent ==
    /\ dir \in [{NameA} -> {Some(c) : c \in SectionContents}]
    /\ ledger = {}
    /\ edits = 0
    /\ cmd = NoCommand
    /\ pc = "idle"
    /\ cands = <<>>
    /\ idx = 0
    /\ stmts = <<>>
    /\ done_count = 0
    /\ done = <<>>
    /\ result = NoResult
    /\ ledger0 = {}
    /\ effects = <<>>

NextContent ==
    \/ UpStart
    \/ ApplyCheck
    \/ ApplyExec
    \/ ApplyRecord
    \/ DownStart
    \/ RollbackCheck
    \/ RollbackExec
    \/ RollbackRemove
    \/ ForceRemove
    \/ Exit

SpecContent == InitContent /\ [][NextContent]_vars

\* The content of the one file of the directory.
TheContent == dir[NameA].val

\* C25: a content whose UP section yields no statement is a format error,
\* and a version the batch recorded had at least one UP statement executed.
C25_AtLeastOneUpStatement ==
    /\ parse_migration_content(TheContent).ok =>
          split_cql_statements(parse_migration_content(TheContent).up) # <<>>
    /\ cmd.name = "up" =>
          \A j \in 1..Len(cands) :
              (\E r \in Added : r.version = cands[j].version) =>
                  \E k \in DOMAIN effects : effects[k].idx = j /\ effects[k].op = "UP"

\* The joined and trimmed text of the lines of the DOWN section.
DownText(content) ==
    Trim(JoinWith(ParseLines(Lines(content), <<>>, <<>>, "none").down, << "\n" >>))

\* C26: a content whose DOWN text is empty parses with down = none, and the
\* rollback of its version passes only when forced, with no statement
\* executed.
C26_EmptyDownIsNone ==
    /\ (parse_migration_content(TheContent).ok /\ DownText(TheContent) = <<>>) =>
          parse_migration_content(TheContent).down = None
    /\ (cmd.name = "down" /\ DownText(TheContent) = <<>>) =>
          \A j \in 1..Len(cands) : Passed(j) => (cmd.force /\ StatementsOf(j) = <<>>)

\* The marker a line is, if any.  With byPrefix the trimmed line begins with
\* the text of a marker; without it the trimmed line is the marker.
MarkerKind(line, byPrefix) ==
    LET t == Trim(line)
        Is(marker) == IF byPrefix THEN StartsWith(t, marker) ELSE t = marker
    IN  IF Is(MarkerUp) \/ Is(MarkerMigrateUp) THEN "UP"
        ELSE IF Is(MarkerDown) \/ Is(MarkerMigrateDown) THEN "DOWN"
        ELSE "none"

\* The section line i of the content belongs to: the section of the most
\* recent marker line; without one, UP once a line that is neither blank
\* nor a comment has been met, and no section before that.  A marker line
\* belongs to no section.
SectionOf(lines, i, byPrefix) ==
    LET markers  == {j \in 1..(i - 1) : MarkerKind(lines[j], byPrefix) # "none"}
        latest   == CHOOSE j \in markers : \A k \in markers : k <= j
        IsReal(j) == /\ Trim(lines[j]) # <<>>
                     /\ ~StartsWith(Trim(lines[j]), CommentPrefix)
    IN  IF MarkerKind(lines[i], byPrefix) # "none" THEN "marker"
        ELSE IF markers # {} THEN MarkerKind(lines[latest], byPrefix)
        ELSE IF \E j \in 1..i : IsReal(j) THEN "UP"
        ELSE "none"

\* The lines of a section, in the order of the content.
RECURSIVE LinesOfSection(_, _, _, _)
LinesOfSection(lines, section, byPrefix, i) ==
    IF i > Len(lines) THEN <<>>
    ELSE (IF SectionOf(lines, i, byPrefix) = section THEN << lines[i] >> ELSE <<>>)
           \o LinesOfSection(lines, section, byPrefix, i + 1)

\* The loop of parse_migration_content assigns the lines as SectionOf says.
SectionsAssigned(byPrefix) ==
    LET lines == Lines(TheContent)
    IN  ParseLines(lines, <<>>, <<>>, "none") =
            [up   |-> LinesOfSection(lines, "UP", byPrefix, 1),
             down |-> LinesOfSection(lines, "DOWN", byPrefix, 1)]

BuiltFrom == {p \in BuildParameters : Build(p.up_marker, p.ups, p.down, p.sep) = TheContent}

\* The DOWN statements a content was built with.
BuiltDown(p) == IF p.down.tag = "None" THEN <<>> ELSE p.down.val.statements

\* C28: a content built of an UP marker, statements each ended by `;` and
\* optionally a DOWN marker with statements parses and splits into exactly
\* these statements, in order; an apply executes the UP statements and a
\* rollback the DOWN statements.
C28_ParseRoundTrip ==
    \A p \in BuiltFrom :
        LET parsed == parse_migration_content(TheContent)
        IN  /\ parsed.ok
            /\ split_cql_statements(parsed.up) = p.ups
            /\ IF parsed.down.tag = "None"
               THEN BuiltDown(p) = <<>>
               ELSE split_cql_statements(parsed.down.val) = BuiltDown(p)
            /\ ApplyCompleted /\ cands # <<>> => TextsOf(1) = p.ups
            /\ (pc = "done" /\ cmd.name = "down" /\ result.kind = "rolled_back"
                  /\ cands # <<>> /\ ~cmd.force)
                 => TextsOf(1) = BuiltDown(p)

\* A rollback has executed the two DOWN statements of a built content whose
\* UP statements hold a space and share a line.
C28_Witness ==
    /\ \E p \in BuiltFrom :
          /\ p.ups = << <<"a", " ", "b">>, <<"a">> >>
          /\ p.sep = << " " >>
          /\ p.up_marker = MarkerMigrateUp
          /\ BuiltDown(p) = << <<"c">>, <<"d">> >>
    /\ pc = "done"
    /\ cmd.name = "down"
    /\ result.kind = "rolled_back"
    /\ TextsOf(1) = << <<"c">>, <<"d">> >>

\* The positions that bound the segments of a text: its terminators, and
\* the positions before its first and after its last character.
Bounds(text) == {0, Len(text) + 1} \cup {i \in 1..Len(text) : text[i] = ";"}

\* The k-th bound from the left.
NthBound(text, k) ==
    CHOOSE b \in Bounds(text) : Cardinality({c \in Bounds(text) : c < b}) = k - 1

\* The text between two neighbouring bounds, trimmed.
TrimmedSegment(text, k) ==
    Trim(SubSeq(text, NthBound(text, k) + 1, NthBound(text, k + 1) - 1))

\* The trimmed segments of a text that are not empty, from left to right.
Statements(text) ==
    SelectSeq([k \in 1..(Cardinality(Bounds(text)) - 1) |-> TrimmedSegment(text, k)],
              LAMBDA s : Len(s) > 0)

\* The section texts of the content of the file.
SectionTexts ==
    LET parsed == parse_migration_content(TheContent)
    IN  IF ~parsed.ok THEN {}
        ELSE {parsed.up} \cup (IF parsed.down.tag = "Some" THEN {parsed.down.val} ELSE {})

\* C29: split_cql_statements returns the trimmed segments between the
\* terminators, in order, without the empty ones; no statement sent to the
\* database is empty, untrimmed or holds a terminator.
C29_StatementSplitting ==
    /\ \A text \in SectionTexts : split_cql_statements(text) = Statements(text)
    /\ \A k \in DOMAIN effects :
          effects[k].op \in {"UP", "DOWN"} =>
              /\ effects[k].arg # <<>>
              /\ Trim(effects[k].arg) = effects[k].arg
              /\ \A i \in DOMAIN effects[k].arg : effects[k].arg[i] # ";"

\* The UP text " a ;; b" under a comment has three segments; an apply has
\* executed the two that are not empty.
C29_Witness ==
    /\ TheContent = ContentSpaced
    /\ ApplyCompleted
    /\ TextsOf(1) = << << "-", "-", " ", "y", "\n", " ", "a" >>, << "b" >> >>

(***************************************************************************)
(* The scan on its own: no directory at all, or a directory that holds any *)
(* of RobustNames, under every command that scans.                         *)
(***************************************************************************)

\* No entry at all: the migrations directory is absent.
MissingDir == << >>

InitRobust ==
    /\ dir \in {MissingDir} \cup [RobustNames -> {None, Some(ContentFull)}]
    /\ ledger = {}
    /\ edits = 0
    /\ cmd = NoCommand
    /\ pc = "idle"
    /\ cands = <<>>
    /\ idx = 0
    /\ stmts = <<>>
    /\ done_count = 0
    /\ done = <<>>
    /\ result = NoResult
    /\ ledger0 = {}
    /\ effects = <<>>

NextRobust ==
    \/ UpStart
    \/ ApplyCheck
    \/ ApplyExec
    \/ ApplyRecord
    \/ DownStart
    \/ RollbackCheck
    \/ RollbackExec
    \/ RollbackRemove
    \/ VerifyStart
    \/ StatusStart
    \/ Exit

SpecRobust == InitRobust /\ [][NextRobust]_vars

\* A command that scans the directory has returned, and not for a failed
\* query before the scan.
ScanReturned ==
    /\ pc = "done"
    /\ cmd.name \in {"up", "status", "verify"}
    /\ ~(result.kind = "error" /\ result.error = "QueryError")

\* The files of the directory the scan takes: extension cql and a name that
\* yields a version.
Taken ==
    {n \in Present : /\ Extension(n) = Some(<< "c", "q", "l" >>)
                     /\ extract_version_from_filename(n).tag = "Some"}

\* C30: after a scan the directory exists, and one that was absent yields
\* no file and no error; whatever names the directory holds, no command
\* fails or aborts because of a name: the files whose name yields no
\* version are left out and the others are processed.
C30_ScanRobust ==
    /\ result.kind # "panic"
    /\ result.kind \in {"error", "failed"} => result.error = "QueryError"
    /\ ScanReturned => DirExists(dir)
    /\ (ScanReturned /\ Present = {}) =>
          result.kind \in {"success", "status"}
    /\ (pc = "done" /\ result.kind = "status") =>
          /\ result.total_files = Cardinality(Taken)
          /\ result.pending_count + result.applied_count = Cardinality(Taken)

\* The files of the directory with the extension cql whose name yields no
\* version: the scan leaves them out with a warning in the log.
Malformed ==
    {n \in Present : /\ Extension(n) = Some(<< "c", "q", "l" >>)
                     /\ IsUtf8(n)
                     /\ extract_version_from_filename(n) = None}

\* The elements of a sequence.
Range(s) == {s[i] : i \in DOMAIN s}

\* C31: a file with a malformed name is in neither the pending nor the
\* applied view, verify reports it neither as missing nor as mismatched, and
\* the verbose status lists it among the invalid files.
C31_MalformedSurfaced ==
    \A n \in Malformed :
        /\ (pc = "done" /\ result.kind = "status") =>
              /\ Stem(n) \notin Range(result.pending_migrations)
              /\ Stem(n) \notin Range(Versions(result.applied_migrations))
              /\ cmd.verbose => n \in Range(result.invalid_files)
        /\ (pc = "done" /\ result.kind = "issues") =>
              \A i \in DOMAIN result.issues : result.issues[i].version # Stem(n)
        /\ \A i \in DOMAIN cands : cands[i].version # Stem(n)

(***************************************************************************)
(* Two runner processes.  Each runs up once against the same directory and *)
(* the same ledger; no lock is taken anywhere in the code, so their steps  *)
(* interleave freely.  In this specification the variables of a process    *)
(* (cmd, pc, cands, idx, stmts, done_count, done, result, ledger0) are     *)
(* functions of the runner, and effects is the one history of the          *)
(* database, each entry with the runner that caused it.                    *)
(***************************************************************************)

Runners == {1, 2}

\* The counts a runner may be given.
RaceCounts == {None, Some(1)}

InitRace ==
    /\ dir = [n \in {NameA, NameB} |-> IF n = NameA THEN Some(ContentFull)
                                                    ELSE Some(ContentNoDown)]
    /\ ledger = {}
    /\ edits = 0
    /\ cmd = [p \in Runners |-> NoCommand]
    /\ pc = [p \in Runners |-> "idle"]
    /\ cands = [p \in Runners |-> <<>>]
    /\ idx = [p \in Runners |-> 0]
    /\ stmts = [p \in Runners |-> <<>>]
    /\ done_count = [p \in Runners |-> 0]
    /\ done = [p \in Runners |-> <<>>]
    /\ result = [p \in Runners |-> NoResult]
    /\ ledger0 = [p \in Runners |-> {}]
    /\ effects = <<>>

\* An entry of the history of the database: "PASS" is a check of
\* is_migration_applied that found no row.
RaceEffect(p, op, arg) == [proc |-> p, version |-> cands[p][idx[p]].version, op |-> op, arg |-> arg]

\* Runner p returns from UpCommand::execute.
RaceReturn(p, output) ==
    /\ pc' = [pc EXCEPT ![p] = "done"]
    /\ result' = [result EXCEPT ![p] = output]

\* Runner p: the Err arm of the loop of UpCommand::execute.
RaceApplyError(p, error) ==
    /\ RaceReturn(p, [ kind               |-> "failed",
                       applied_count      |-> done_count[p],
                       applied_migrations |-> done[p],
                       failed_migration   |-> cands[p][idx[p]].version,
                       error              |-> error ])
    /\ UNCHANGED << dir, ledger, edits, cmd, cands, idx, stmts, done_count,
                    done, ledger0, effects >>

\* Runner p: UpCommand::execute up to its loop.
RaceUpStartOf(p) ==
    LET pending_migrations == get_pending_migrations(ledger, dir)
    IN  \E count \in RaceCounts, query_ok \in BOOLEAN :
          LET migrations_to_apply ==
                  IF count.tag = "Some"
                  THEN Take(pending_migrations, count.val)
                  ELSE pending_migrations
          IN  /\ pc[p] = "idle"
              /\ cmd' = [cmd EXCEPT ![p] = [name |-> "up", count |-> count, dry_run |-> FALSE]]
              /\ ledger0' = [ledger0 EXCEPT ![p] = ledger]
              /\ IF ~query_ok
                 THEN /\ RaceReturn(p, [kind |-> "error", error |-> "QueryError"])
                      /\ UNCHANGED << cands, idx >>
                 ELSE IF pending_migrations = <<>>
                 THEN /\ RaceReturn(p, [kind |-> "success", message |-> "No pending migrations found"])
                      /\ UNCHANGED << cands, idx >>
                 ELSE /\ pc' = [pc EXCEPT ![p] = "apply_check"]
                      /\ cands' = [cands EXCEPT ![p] = migrations_to_apply]
                      /\ idx' = [idx EXCEPT ![p] = 1]
                      /\ UNCHANGED result
              /\ UNCHANGED << dir, ledger, edits, stmts, done_count, done, effects >>

\* RaceApplyCheckOf with a slip: the statements of the version that an
\* earlier run has executed are passed over.
RaceApplyCheckResumes(p) ==
    /\ pc[p] = "apply_check"
    /\ LET migration == cands[p][idx[p]]
           parsed    == parse_migration_content(migration.content)
           executed  == Len(SelectSeq(effects, LAMBDA e :
                                e.op = "UP" /\ e.version = migration.version))
           all       == split_cql_statements(parsed.up)
           left      == SubSeq(all, (IF executed < Len(all) THEN executed ELSE Len(all)) + 1,
                               Len(all))
       IN  \E query_ok \in BOOLEAN :
             IF ~query_ok THEN RaceApplyError(p, "QueryError")
             ELSE IF is_migration_applied(ledger, migration.version)
             THEN RaceApplyError(p, "AlreadyApplied")
             ELSE IF ~parsed.ok THEN RaceApplyError(p, "InvalidFormat")
             ELSE /\ stmts' = [stmts EXCEPT ![p] = left]
                  /\ pc' = [pc EXCEPT ![p] = IF left = <<>>
                                             THEN "apply_record" ELSE "apply_exec"]
                  /\ effects' = Append(effects, RaceEffect(p, "PASS", <<>>))
                  /\ UNCHANGED << dir, ledger, edits, cmd, cands, idx,
                                  done_count, done, result, ledger0 >>

\* Runner p: apply_migration up to its first statement.
RaceApplyCheckOf(p) ==
    /\ pc[p] = "apply_check"
    /\ LET migration == cands[p][idx[p]]
           parsed    == parse_migration_content(migration.content)
       IN  \E query_ok \in BOOLEAN :
             IF ~query_ok THEN RaceApplyError(p, "QueryError")
             ELSE IF is_migration_applied(ledger, migration.version)
             THEN RaceApplyError(p, "AlreadyApplied")
             ELSE IF ~parsed.ok THEN RaceApplyError(p, "InvalidFormat")
             ELSE /\ stmts' = [stmts EXCEPT ![p] = split_cql_statements(parsed.up)]
                  /\ pc' = [pc EXCEPT ![p] = IF split_cql_statements(parsed.up) = <<>>
                                             THEN "apply_record" ELSE "apply_exec"]
                  /\ effects' = Append(effects, RaceEffect(p, "PASS", <<>>))
                  /\ UNCHANGED << dir, ledger, edits, cmd, cands, idx,
                                  done_count, done, result, ledger0 >>

\* Runner p: one UP statement is sent to the database.
RaceApplyExecOf(p) ==
    /\ pc[p] = "apply_exec"
    /\ \E query_ok \in BOOLEAN :
         IF ~query_ok THEN RaceApplyError(p, "QueryError")
         ELSE /\ effects' = Append(effects, RaceEffect(p, "UP", Head(stmts[p])))
              /\ stmts' = [stmts EXCEPT ![p] = Tail(stmts[p])]
              /\ pc' = [pc EXCEPT ![p] = IF Tail(stmts[p]) = <<>>
                                         THEN "apply_record" ELSE "apply_exec"]
              /\ UNCHANGED << dir, ledger, edits, cmd, cands, idx,
                              done_count, done, result, ledger0 >>

\* Runner p: record_migration_applied, then the next candidate or the final
\* result.
RaceApplyRecordOf(p) ==
    /\ pc[p] = "apply_record"
    /\ \E query_ok \in BOOLEAN :
         IF ~query_ok THEN RaceApplyError(p, "QueryError")
         ELSE /\ ledger' = record_migration_applied(ledger, cands[p][idx[p]], UtcNow(ledger))
              /\ effects' = Append(effects, RaceEffect(p, "INSERT", cands[p][idx[p]].version))
              /\ done_count' = [done_count EXCEPT ![p] = @ + 1]
              /\ done' = [done EXCEPT ![p] = Append(@, cands[p][idx[p]].version)]
              /\ stmts' = [stmts EXCEPT ![p] = <<>>]
              /\ IF idx[p] < Len(cands[p])
                 THEN /\ idx' = [idx EXCEPT ![p] = @ + 1]
                      /\ pc' = [pc EXCEPT ![p] = "apply_check"]
                      /\ UNCHANGED result
                 ELSE /\ RaceReturn(p, [ kind               |-> "applied",
                                         applied_count      |-> done_count[p] + 1,
                                         applied_migrations |-> Append(done[p], cands[p][idx[p]].version) ])
                      /\ UNCHANGED idx
              /\ UNCHANGED << dir, edits, cmd, cands, ledger0 >>

RaceUpStart == \E p \in Runners : RaceUpStartOf(p)

RaceApplyCheck == \E p \in Runners : RaceApplyCheckOf(p)

RaceApplyExec == \E p \in Runners : RaceApplyExecOf(p)

RaceApplyRecord == \E p \in Runners : RaceApplyRecordOf(p)

NextRace ==
    \/ RaceUpStart
    \/ RaceApplyCheck
    \/ RaceApplyExec
    \/ RaceApplyRecord

SpecRace == InitRace /\ [][NextRace]_vars

\* C32: the check of apply_migration is sound only at the instant it is
\* made.  A runner executes a statement or inserts the record of a version
\* only after a check of its own that found no row, and at that check no
\* record of the version had been inserted; nothing more is ensured: the
\* other runner may pass its check of the same version before the record is
\* written (C32_Witness), and then both execute the UP statements.
C32_CheckIsBestEffort ==
    \A k \in DOMAIN effects :
        LET e == effects[k]
        IN  /\ e.op = "PASS" =>
                  ~\E j \in 1..(k - 1) :
                       effects[j].op = "INSERT" /\ effects[j].version = e.version
            /\ e.op \in {"UP", "INSERT"} =>
                  \E j \in 1..(k - 1) :
                       /\ effects[j].op = "PASS"
                       /\ effects[j].proc = e.proc
                       /\ effects[j].version = e.version

\* Both runners passed the check of the first version and both executed its
\* two UP statements.
C32_Witness ==
    \A p \in Runners :
        /\ Cardinality({k \in DOMAIN effects :
                           /\ effects[k].proc = p
                           /\ effects[k].op = "UP"
                           /\ effects[k].version = VersionOf(NameA)}) = 2
        /\ \E k \in DOMAIN effects :
              /\ effects[k].proc = p
              /\ effects[k].op = "PASS"
              /\ effects[k].version = VersionOf(NameA)

(***************************************************************************)
(* calculate_checksum called on its own                                    *)
(***************************************************************************)

\* The input of test_calculate_checksum.
ContentOfTest ==
    << "C", "R", "E", "A", "T", "E", " ", "T", "A", "B", "L", "E", " ",
       "t", "e", "s", "t", " ", "(", "i", "d", " ", "U", "U", "I", "D", " ",
       "P", "R", "I", "M", "A", "R", "Y", " ", "K", "E", "Y", ")", ";" >>

\* Contents of more than one block of 64 bytes.
LongContents ==
    { c \o d : c, d \in {ContentFull, ContentUpdateNote, ContentSpaced} }

ChecksumInputs ==
    {<<>>, ContentOfTest} \cup Contents \cup SectionContents \cup LongContents

InitChecksum ==
    /\ dir \in [{NameA} -> {Some(c) : c \in ChecksumInputs}]
    /\ ledger = {}
    /\ edits = 0
    /\ cmd = NoCommand
    /\ pc = "idle"
    /\ cands = <<>>
    /\ idx = 0
    /\ stmts = <<>>
    /\ done_count = 0
    /\ done = <<>>
    /\ result = NoResult
    /\ ledger0 = {}
    /\ effects = <<>>

\* A call of calculate_checksum on the content of the file.
CalculateChecksum ==
    /\ pc = "idle"
    /\ cmd' = [name |-> "calculate_checksum"]
    /\ result' = [kind |-> "ok", checksum |-> calculate_checksum_hex(dir[NameA].val)]
    /\ pc' = "done"
    /\ UNCHANGED << dir, ledger, edits, cands, idx, stmts, done_count, done,
                    ledger0, effects >>

NextChecksum ==
    \/ CalculateChecksum
    \/ Exit

SpecChecksum == InitChecksum /\ [][NextChecksum]_vars

\* The digests of the empty string and of the contents the commands
\* compare, computed once.
ChecksumTable ==
    { [content |-> c, checksum |-> calculate_checksum_hex(c)] :
        c \in {<<>>} \cup Contents }

ChecksumReturned == pc = "done" /\ cmd.name = "calculate_checksum"

\* C33: calculate_checksum returns exactly 64 hexadecimal characters for
\* every input, the empty string included; equal contents give equal
\* digests and different contents give different digests (every input is
\* compared with the contents of ChecksumTable).
C33_ChecksumDigest ==
    ChecksumReturned =>
        /\ Len(result.checksum) = 64
        /\ \A i \in DOMAIN result.checksum :
               \E k \in DOMAIN HexDigits : result.checksum[i] = HexDigits[k]
        /\ \A r \in ChecksumTable :
               (r.content = dir[NameA].val) <=> (r.checksum = result.checksum)

\* The digest of the empty string.
Sha256OfEmpty ==
    << "e", "3", "b", "0", "c", "4", "4", "2", "9", "8", "f", "c", "1", "c", "1", "4",
       "9", "a", "f", "b", "f", "4", "c", "8", "9", "9", "6", "f", "b", "9", "2", "4",
       "2", "7", "a", "e", "4", "1", "e", "4", "6", "4", "9", "b", "9", "3", "4", "c",
       "a", "4", "9", "5", "9", "9", "1", "b", "7", "8", "5", "2", "b", "8", "5", "5" >>

C33_Witness ==
    /\ ChecksumReturned
    /\ dir[NameA].val = <<>>
    /\ result.checksum = Sha256OfEmpty

(***************************************************************************)
(* extract_description_from_filename called on its own                     *)
(***************************************************************************)

MaxStemLen == 4

RECURSIVE TextsUpTo(_, _)
TextsUpTo(chars, n) ==
    IF n = 0 THEN {<<>>}
    ELSE LET shorter == TextsUpTo(chars, n - 1)
         IN  shorter \cup { Append(t, c) : t \in shorter, c \in chars }

\* File names: every stem of at most MaxStemLen characters with the
\* extension, and the names of the directories above.
DescriptionNames ==
    { stem \o CqlExt : stem \in TextsUpTo({"a", "b", "_"}, MaxStemLen) }
      \cup PatternNames \cup ScanNames \cup (RobustNames \ {NameNotUtf8})

InitDescription ==
    /\ dir = [n \in FileNames |-> None]
    /\ ledger = {}
    /\ edits = 0
    /\ cmd = NoCommand
    /\ pc = "idle"
    /\ cands = <<>>
    /\ idx = 0
    /\ stmts = <<>>
    /\ done_count = 0
    /\ done = <<>>
    /\ result = NoResult
    /\ ledger0 = {}
    /\ effects = <<>>

\* A call of extract_description_from_filename.
ExtractDescription ==
    /\ pc = "idle"
    /\ \E filename \in DescriptionNames :
         /\ cmd' = [name |-> "extract_description_from_filename",
                    filename |-> filename]
         /\ result' = [kind |-> "ok",
                       description |-> extract_description_from_filename(filename)]
    /\ pc' = "done"
    /\ UNCHANGED << dir, ledger, edits, cands, idx, stmts, done_count, done,
                    ledger0, effects >>

NextDescription ==
    \/ ExtractDescription
    \/ Exit

SpecDescription == InitDescription /\ [][NextDescription]_vars

\* The segments of the stem from index 2 onward joined by single spaces,
\* or the stem when it has fewer than three segments.
DescriptionOfStem(stem) ==
    LET segments == SplitOn(stem, "_")
    IN  IF Len(segments) >= 3
        THEN JoinWith(SubSeq(segments, 3, Len(segments)), << " " >>)
        ELSE stem

DescriptionReturned == pc = "done" /\ cmd.name = "extract_description_from_filename"

\* C34: extract_description_from_filename returns, for every file name, the
\* segments of the stem from index 2 onward joined by single spaces when
\* the stem has three or more segments, and the stem itself otherwise.
C34_Description ==
    DescriptionReturned =>
        result.description = DescriptionOfStem(Stem(cmd.filename))

(***************************************************************************)
(* commands/create.rs, create_migration_file and the file name codec       *)
(***************************************************************************)

DecimalDigits == << "0", "1", "2", "3", "4", "5", "6", "7", "8", "9" >>

\* {:0width$}: the decimal digits of n, padded with zeros.
RECURSIVE ZeroPadded(_, _)
ZeroPadded(n, width) ==
    IF width = 0 THEN <<>>
    ELSE ZeroPadded(n \div 10, width - 1) \o << DecimalDigits[(n % 10) + 1] >>

\* Utc::now: the instants the clock shows.
Clock ==
    { [year |-> 2025, month |-> 1, day |-> 1, hour |-> 0, minute |-> 0, second |-> 0],
      [year |-> 2026, month |-> 11, day |-> 5, hour |-> 23, minute |-> 59, second |-> 59] }

\* generate_migration_version: now.format("%Y%m%d_%H%M%S")
generate_migration_version(now) ==
    ZeroPadded(now.year, 4) \o ZeroPadded(now.month, 2) \o ZeroPadded(now.day, 2)
      \o << "_" >>
      \o ZeroPadded(now.hour, 2) \o ZeroPadded(now.minute, 2) \o ZeroPadded(now.second, 2)

UpperCase ==
    << "A", "B", "C", "D", "E", "F", "G", "H", "I", "J", "K", "L", "M",
       "N", "O", "P", "Q", "R", "S", "T", "U", "V", "W", "X", "Y", "Z" >>

LowerCase ==
    << "a", "b", "c", "d", "e", "f", "g", "h", "i", "j", "k", "l", "m",
       "n", "o", "p", "q", "r", "s", "t", "u", "v", "w", "x", "y", "z" >>

\* char::is_alphanumeric: the letters and digits of every script.
is_alphanumeric(c) ==
    \/ c \in Digits
    \/ \E k \in DOMAIN UpperCase : c = UpperCase[k] \/ c = LowerCase[k]
    \/ c \in TwoByteChars

\* str::to_lowercase
to_lowercase(s) ==
    [i \in DOMAIN s |->
        IF \E k \in DOMAIN UpperCase : s[i] = UpperCase[k]
        THEN LowerCase[CHOOSE k \in DOMAIN UpperCase : s[i] = UpperCase[k]]
        ELSE s[i]]

\* create_migration_filename, with the reading of the clock as a parameter.
create_migration_filename(now, description) ==
    LET version         == generate_migration_version(now)
        normalized_desc ==
            to_lowercase([i \in DOMAIN description |->
                             IF is_alphanumeric(description[i])
                             THEN description[i] ELSE "_"])
    IN  version \o << "_" >> \o normalized_desc \o CqlExt

\* generate_migration_template: the header with the description, the two
\* markers, and under each a line of comment.
generate_migration_template(description) ==
    << "-", "-", " ", "M", ":", " " >> \o description \o << "\n" >>
      \o MarkerMigrateUp \o << "\n", "-", "-", " ", "a", "\n" >>
      \o MarkerMigrateDown \o << "\n", "-", "-", " ", "c", "\n" >>

\* The descriptions given to create: "", " ", "a", "A b", "a.cql", "a-b",
\* "Ab" and the letter U+00E9.
Descriptions ==
    { <<>>, << " " >>, << "a" >>, << "A", " ", "b" >>,
      << "a", ".", "c", "q", "l" >>, << "a", "-", "b" >>, << "A", "b" >>,
      << "U+00E9" >> }

MaxCreates == 2

\* fs::write: the file is created, or replaced.
WithFile(d, filename, content) ==
    [n \in DOMAIN d \cup {filename} |-> IF n = filename THEN Some(content) ELSE d[n]]

\* CreateCommand::execute and create_migration_file.
CreateStart ==
    \E description \in Descriptions, now \in Clock, write_ok \in BOOLEAN :
      /\ edits < MaxCreates
      /\ Begin([name |-> "create", description |-> description])
      /\ pc' = "done"
      /\ cands' = <<>>
      /\ idx' = 0
      /\ stmts' = <<>>
      /\ UNCHANGED ledger
      /\ LET filename == create_migration_filename(now, description)
         IN  IF Trim(description) = <<>>
             THEN /\ result' = [kind |-> "error", error |-> "EmptyDescription"]
                  /\ UNCHANGED << dir, edits >>
             ELSE IF ~write_ok
             THEN /\ result' = [kind |-> "error", error |-> "IoError"]
                  /\ UNCHANGED << dir, edits >>
             ELSE /\ result' = [kind |-> "success", file_path |-> filename,
                                filename |-> filename]
                  /\ dir' = WithFile(dir, filename,
                                     generate_migration_template(description))
                  /\ edits' = edits + 1

NextCreate ==
    \/ CreateStart
    \/ StatusStart
    \/ Exit

SpecCreate == InitRobust /\ [][NextCreate]_vars

\* The description in lower case, every character that is neither a letter
\* nor a digit replaced by an underscore.
NormalizedDescription(description) ==
    [i \in DOMAIN description |->
        IF is_alphanumeric(description[i])
        THEN to_lowercase(<< description[i] >>)[1]
        ELSE "_"]

\* YYYYMMDD_HHMMSS
IsTimestamp(text) ==
    /\ Len(text) = 15
    /\ \A i \in 1..8 : text[i] \in Digits
    /\ text[9] = "_"
    /\ \A i \in 10..15 : text[i] \in Digits

CreateReturned == pc = "done" /\ cmd.name = "create" /\ result.kind = "success"

\* The file name is <YYYYMMDD_HHMMSS>_<d>.cql, d the normalized description.
CreatedNameFormat ==
    LET filename == result.filename
    IN  /\ Len(filename) >= 16
        /\ IsTimestamp(SubSeq(filename, 1, 15))
        /\ SubSeq(filename, 16, Len(filename))
             = << "_" >> \o NormalizedDescription(cmd.description) \o CqlExt

\* C35: the file name that create returns is <YYYYMMDD_HHMMSS>_<d>.cql with
\* d the description in lower case and every non-alphanumeric character
\* replaced by an underscore; extract_version_from_filename accepts it, and
\* the scan of the directory finds the created file as a pending migration.
C35_CreatedIsPending ==
    CreateReturned =>
        /\ CreatedNameFormat
        /\ extract_version_from_filename(result.filename) = Some(Stem(result.filename))
        /\ ScanOutcome(dir) = "ok"
        /\ Stem(result.filename) \in Range(Versions(get_pending_migrations(ledger, dir)))

\* The UP statements of a migration file, as apply_migration executes them.
UpStatementsOf(migration) ==
    split_cql_statements(parse_migration_content(migration.content).up)

\* The batch returned because an UP statement of candidate idx failed: the
\* statement is the first of those still to execute.
UpStatementFailed ==
    pc = "done" /\ cmd.name = "up" /\ result.kind = "failed" /\ stmts # <<>>

\* The mutations the command made for candidate i.
EffectsOf(i) == SelectSeq(effects, LAMBDA e : e.idx = i)

\* C36: when UP statement j of a migration fails, its statements 1..j-1 have
\* been executed and are not undone, its statements from j on have not been
\* executed, and no ledger record of the migration has been written.
C36_PartialEffect ==
    UpStatementFailed =>
        LET all  == UpStatementsOf(cands[idx])
            j    == Len(all) - Len(stmts) + 1
            mine == EffectsOf(idx)
        IN  /\ j \in 1..Len(all)
            /\ Len(mine) = j - 1
            /\ \A k \in 1..(j - 1) : mine[k].op = "UP" /\ mine[k].arg = all[k]
            /\ \A k \in DOMAIN effects : effects[k].op # "DOWN"
            /\ \A r \in ledger : r.version # cands[idx].version

\* The second UP statement of the second candidate failed.
C36_Witness ==
    /\ UpStatementFailed
    /\ idx = 2
    /\ Len(UpStatementsOf(cands[idx])) = 2
    /\ Len(stmts) = 1
    /\ Len(EffectsOf(idx)) = 1

(***************************************************************************)
(* Two runs of up, one after the other.  The first process returns, or is  *)
(* killed at any step; it takes no step once the second has begun.  The    *)
(* history of the database is the one of both.                             *)
(***************************************************************************)

\* Process p may take a step.
Alive(p) == p = 2 \/ pc[2] = "idle"

RerunUpStart == \E p \in Runners : Alive(p) /\ RaceUpStartOf(p)

RerunApplyCheck == \E p \in Runners : Alive(p) /\ RaceApplyCheckOf(p)

RerunApplyExec == \E p \in Runners : Alive(p) /\ RaceApplyExecOf(p)

RerunApplyRecord == \E p \in Runners : Alive(p) /\ RaceApplyRecordOf(p)

NextRerun ==
    \/ RerunUpStart
    \/ RerunApplyCheck
    \/ RerunApplyExec
    \/ RerunApplyRecord

SpecRerun == InitRace /\ [][NextRerun]_vars

\* The UP statements of the file of version v.
UpStatementsOfVersion(v) ==
    LET files == get_migration_files(dir)
    IN  UpStatementsOf(files[CHOOSE i \in DOMAIN files : files[i].version = v])

\* The positions of the history where process p executed an UP statement
\* of version v.
UpPositions(p, v) ==
    {k \in DOMAIN effects :
        effects[k].proc = p /\ effects[k].op = "UP" /\ effects[k].version = v}

\* The first run executed a statement of v and wrote no record of it: it
\* failed at a later statement, or ended before the insert.
LeftUnrecorded(v) ==
    /\ UpPositions(1, v) # {}
    /\ \A k \in DOMAIN effects : ~(effects[k].op = "INSERT" /\ effects[k].version = v)

\* C37: after a run that executed UP statements of a migration without
\* recording it (a failure at statement j > 1, an interruption before the
\* insert), the next run takes the migration as its first candidate and
\* executes its UP statements from the first one: the statements that had
\* succeeded are executed a second time.
C37_AtLeastOnce ==
    \A v \in {VersionOf(NameA), VersionOf(NameB)} :
        /\ \A p \in Runners : \A k \in UpPositions(p, v) :
              effects[k].arg
                = UpStatementsOfVersion(v)[Cardinality({i \in UpPositions(p, v) : i <= k})]
        /\ (LeftUnrecorded(v) /\ cands[2] # <<>>) => cands[2][1].version = v
        /\ (LeftUnrecorded(v) /\ UpPositions(2, v) # {}) =>
              \E i \in UpPositions(1, v), k \in UpPositions(2, v) :
                  /\ i < k
                  /\ effects[i].arg = UpStatementsOfVersion(v)[1]
                  /\ effects[k].arg = UpStatementsOfVersion(v)[1]

\* The first run failed at the second UP statement of the first migration;
\* the second run has executed the first statement again.
C37_Witness ==
    /\ pc[1] = "done"
    /\ result[1].kind = "failed"
    /\ Len(stmts[1]) = 1
    /\ Cardinality(UpPositions(1, VersionOf(NameA))) = 1
    /\ UpPositions(2, VersionOf(NameA)) # {}

(***************************************************************************)
(* Apply and rollback batches over a directory that does not change, from  *)
(* the empty ledger.  The names are those of SpecScan; a file has a DOWN   *)
(* section or none.                                                        *)
(***************************************************************************)

InitBatches ==
    /\ dir \in [ScanNames -> {None, Some(ContentFull), Some(ContentNoDown)}]
    /\ ledger = {}
    /\ edits = 0
    /\ cmd = NoCommand
    /\ pc = "idle"
    /\ cands = <<>>
    /\ idx = 0
    /\ stmts = <<>>
    /\ done_count = 0
    /\ done = <<>>
    /\ result = NoResult
    /\ ledger0 = {}
    /\ effects = <<>>

NextBatches ==
    \/ UpStart
    \/ ApplyCheck
    \/ ApplyExec
    \/ ApplyRecord
    \/ DownStart
    \/ RollbackCheck
    \/ RollbackExec
    \/ RollbackRemove
    \/ ForceRemove
    \/ Exit

SpecBatches == InitBatches /\ [][NextBatches]_vars

\* The versions of the ledger are those of the first n files of the scan.
AppliedIsPrefix(n) ==
    {r.version : r \in ledger}
      = {get_migration_files(dir)[i].version : i \in 1..n}

\* C38: with the files unchanged and the ledger empty at first, after every
\* apply or rollback batch the applied versions are those of a prefix of
\* the files in scan order.
C38_PrefixInvariant ==
    pc \in {"idle", "done"} =>
        \E n \in 0..Len(get_migration_files(dir)) : AppliedIsPrefix(n)

\* The file rollback_migration finds for candidate j, if it has a DOWN
\* section.
FileWithDown(j) ==
    LET file == FindFile(get_migration_files(dir), cands[j].version)
    IN  IF /\ file.tag = "Some"
           /\ parse_migration_content(file.val.content).ok
           /\ parse_migration_content(file.val.content).down.tag = "Some"
        THEN file ELSE None

\* C39: neither apply nor rollback reports a ChecksumMismatch; a rollback
\* that passed a candidate whose file has a DOWN section executed the DOWN
\* statements of the file as it is now and removed the record, whether or
\* not the checksum of the file is the one of the record.
C39_RollbackIgnoresChecksum ==
    /\ (pc = "done" /\ cmd.name \in {"up", "down"} /\ result.kind \in {"failed", "error"})
          => result.error # "ChecksumMismatch"
    /\ cmd.name = "down" =>
          \A j \in 1..Len(cands) :
              (Passed(j) /\ FileWithDown(j).tag = "Some") =>
                  /\ TextsOf(j) = DownStatements(FileWithDown(j).val)
                  /\ cands[j] \notin ledger

\* A migration whose file was edited after it was applied has been rolled
\* back with the DOWN statement of the edited file.
C39_Witness ==
    /\ cmd.name = "down"
    /\ pc = "done"
    /\ result.kind = "rolled_back"
    /\ cands # <<>>
    /\ FileWithDown(1).tag = "Some"
    /\ FileWithDown(1).val.checksum # cands[1].checksum
    /\ TextsOf(1) = << << "d" >> >>

\* rollback_migration finds the file of candidate j, and it has no DOWN
\* section.
LacksDown(j) ==
    LET file == FindFile(get_migration_files(dir), cands[j].version)
    IN  /\ file.tag = "Some"
        /\ parse_migration_content(file.val.content).ok
        /\ parse_migration_content(file.val.content).down.tag = "None"

\* The record of candidate j was deleted by the command.
RecordDeleted(j) ==
    \E k \in DOMAIN effects : effects[k].idx = j /\ effects[k].op = "DELETE"

\* C40: in a rollback batch with --force, a candidate without DOWN section
\* does not stop the batch (only a database error does): its record is
\* removed without any statement and it is counted as rolled back; the
\* candidates are processed in descending order of version, all of them
\* when the batch completes; a record is removed only for a candidate
\* without DOWN section or after all its DOWN statements were executed, and
\* a DOWN statement that fails stops the batch and leaves the record.
C40_ForceBatch ==
    (cmd.name = "down" /\ cmd.force) =>
        /\ \A j \in 1..Len(cands) :
              /\ (LacksDown(j) /\ Passed(j)) =>
                    /\ cands[j] \notin ledger
                    /\ done[j] = cands[j].version
                    /\ StatementsOf(j) = <<>>
              /\ (LacksDown(j) /\ j = idx /\ pc = "done" /\ result.kind = "failed") =>
                    result.error \in {"QueryError", "ForceFailed"}
              /\ RecordDeleted(j) =>
                    \/ LacksDown(j)
                    \/ /\ FileWithDown(j).tag = "Some"
                       /\ TextsOf(j) = DownStatements(FileWithDown(j).val)
              /\ j < Len(cands) => StrLess(cands[j + 1].version, cands[j].version)
        /\ (pc = "done" /\ result.kind = "rolled_back") =>
              /\ done = Versions(cands)
              /\ result.rollback_count = Len(cands)
        /\ (pc = "done" /\ result.kind = "failed" /\ stmts # <<>>) =>
              /\ cands[idx] \in ledger
              /\ result.rollback_count = idx - 1
              /\ \A k \in DOMAIN effects : effects[k].idx <= idx

\* A forced batch passed a first candidate without DOWN section and rolled
\* back the next one with its DOWN statement.
C40_Witness ==
    /\ cmd.name = "down"
    /\ cmd.force
    /\ pc = "done"
    /\ result.kind = "rolled_back"
    /\ Len(cands) >= 2
    /\ LacksDown(1)
    /\ TextsOf(2) # <<>>

====
